---- MODULE Spec2Model ----
(***************************************************************************)
(* Model of the recipe-url-importer service: the URL/host validator, the   *)
(* fetcher with manual redirect control, the TTL cache and the sliding     *)
(* window rate limiter.                                                    *)
(***************************************************************************)
EXTENDS Integers, Sequences, FiniteSets, TLC

VARIABLES
    pc,                      \* position of the fetch_html coroutine
    block_internal_suffixes, \* Settings.block_internal_suffixes of this process
    current_url,             \* fetch_html: current_url
    redirect_count,          \* fetch_html: redirect_count
    lastVal,                 \* the last call of the validator: input, DNS answer, outcome
    lastGetUrl,              \* URL of the last GET handed to the transport
    lastConnect,             \* address the transport connected to for the last GET
    received,                \* body bytes the client holds of the last response
    get_count,               \* number of GET requests sent by this fetch
    dns_count,               \* number of getaddrinfo calls made by this fetch
    lastResponse,            \* what the last GET produced (exception or response)
    result,                  \* what fetch_html returned or raised
    now,                     \* time.time()
    store,                   \* MemoryCache._store
    lastSetAt,               \* history: per key, time and value of the latest set
    lastCacheGet,            \* history: the last MemoryCache.get call and its result
    events,                  \* SlidingWindowLimiter.events
    admitted,                \* history: per key, the times of all admitted calls
    rejected,                \* history: per key, calls rejected since the last admitted one
    lastAllow,               \* history: the last SlidingWindowLimiter.allow call
    per_ip,                  \* BackstopRateLimiter.per_ip.events
    per_domain,              \* BackstopRateLimiter.per_domain.events
    lastCheck,               \* history: the last BackstopRateLimiter.check call
    recipe_in,               \* compute_confidence: the recipe argument
    strategy_in,             \* compute_confidence: the strategy argument
    confidence_out,          \* compute_confidence: the returned tuple
    importer_strategy_order, \* Settings.importer_strategy_order, as its comma-separated items
    enable_headless,         \* Settings.enable_headless
    headless_allowlist_domains, \* Settings.headless_allowlist_domains
    ppc,                     \* position of the parse_recipe handler
    request,                 \* the request being handled, with what held when it arrived
    canonical_url,           \* run_pipeline: canonical_url
    response,                \* what the handler answered, and by which path
    completed,               \* history: per cache key, the latest fetched completions
    requests,                \* number of requests received
    duration_in,             \* duration_to_minutes: the duration argument
    minutes_out,             \* duration_to_minutes: whether it was called, and what it returned
    data_in,                 \* normalize_recipe: the data argument
    draft_out,               \* normalize_recipe: whether it was called, and the draft returned
    users,                   \* family API: the User rows, by emailOrUsername
    memberships,             \* family API: the FamilyMembership rows of the family space
    handlers,                \* family API: the request each handler is in, and where
    removed,                 \* history: the FamilyMembership rows deleted so far
    family_requests          \* number of family API requests started so far

fetchVars == <<pc, block_internal_suffixes, current_url, redirect_count, lastVal,
               lastGetUrl, lastConnect, received, get_count, dns_count, lastResponse, result>>
cacheVars == <<store, lastSetAt, lastCacheGet>>
limiterVars == <<events, admitted, rejected, lastAllow>>
backstopVars == <<per_ip, per_domain, lastCheck>>
confidenceVars == <<recipe_in, strategy_in, confidence_out>>
pipelineVars == <<importer_strategy_order, enable_headless, headless_allowlist_domains, ppc, request, canonical_url,
                  response, completed, requests>>
contentVars == <<duration_in, minutes_out, data_in, draft_out>>
familyVars == <<users, memberships, handlers, removed, family_requests>>
otherVars == <<contentVars, familyVars>>
serviceVars == <<backstopVars, confidenceVars, pipelineVars, otherVars>>
vars == <<fetchVars, now, cacheVars, limiterVars, serviceVars>>

(***************************************************************************)
(* Settings                                                                *)
(***************************************************************************)
max_html_bytes == 3
redirect_limit == 2
cache_ttl_seconds == 2
allowed_schemes == {"http", "https"}
allowed_ports == {80, 443}
blocked_suffixes == {"local", "internal", "corp"}
\* host names are lists of lower-case labels plus a flag: written in upper case
blocked_hostnames ==
    { [labels |-> <<"localhost">>, upper |-> FALSE],
      [labels |-> <<"metadata", "google", "internal">>, upper |-> FALSE],
      [labels |-> <<"169", "254", "169", "254">>, upper |-> FALSE] }

(***************************************************************************)
(* URLs.  A URL string is held by its syntactic parts: the scheme as       *)
(* written, the host as a list of labels with its letter case, the port    *)
(* text (NoPort when there is no ":port"), the query ("none" when there is *)
(* no "?", "empty" for a bare "?") and the fragment ("none" without "#").  *)
(***************************************************************************)
NoPort == -1
NoUrl == [scheme |-> "", host |-> [labels |-> <<>>, upper |-> FALSE], port |-> NoPort,
          query |-> "none", fragment |-> "none"]

Schemes == {"http", "HTTP", "ftp", ""}
Ports == {NoPort, 80, 8080, 99999}
Hosts ==
    { [labels |-> <<"example", "com">>, upper |-> FALSE],
      [labels |-> <<"example", "com">>, upper |-> TRUE],
      [labels |-> <<"localhost">>, upper |-> TRUE],
      [labels |-> <<"svc", "corp">>, upper |-> FALSE],
      [labels |-> <<"a", "", "b">>, upper |-> FALSE],
      [labels |-> <<>>, upper |-> FALSE] }
Queries == {"none", "empty", "q=1"}
Fragments == {"none", "frag"}

Urls == [scheme : Schemes, host : Hosts, port : Ports, query : Queries, fragment : Fragments]

\* the redirect targets a server answers with (urljoin of the current URL and Location)
Url(scheme, labels, upper, port, fragment) ==
    [scheme |-> scheme, host |-> [labels |-> labels, upper |-> upper], port |-> port,
     query |-> "none", fragment |-> fragment]
RedirectTargets ==
    { Url("http", <<"example", "com">>, FALSE, NoPort, "none"),
      Url("http", <<"example", "com">>, TRUE, 80, "frag"),
      Url("ftp", <<"example", "com">>, FALSE, NoPort, "none"),
      Url("http", <<"example", "com">>, FALSE, 8080, "none"),
      Url("http", <<"example", "com">>, FALSE, 99999, "none"),
      Url("http", <<"localhost">>, TRUE, NoPort, "none"),
      Url("http", <<"svc", "corp">>, FALSE, NoPort, "none"),
      Url("http", <<"a", "", "b">>, FALSE, NoPort, "none") }

(***************************************************************************)
(* urllib.parse.urlsplit / urlunsplit                                      *)
(***************************************************************************)
lower(s) == IF s = "HTTP" THEN "http" ELSE s

\* SplitResult: the scheme is lower-cased, netloc keeps the text as written,
\* query and fragment are "" when absent or empty
urlsplit(url) ==
    [scheme |-> lower(url.scheme),
     netloc |-> [host |-> url.host, port |-> url.port],
     query |-> IF url.query \in {"none", "empty"} THEN "" ELSE url.query,
     fragment |-> IF url.fragment = "none" THEN "" ELSE url.fragment]

urlunsplit(parsed) ==
    [scheme |-> parsed.scheme,
     host |-> parsed.netloc.host,
     port |-> parsed.netloc.port,
     query |-> IF parsed.query = "" THEN "none" ELSE parsed.query,
     fragment |-> IF parsed.fragment = "" THEN "none" ELSE parsed.fragment]

netloc_empty(parsed) == parsed.netloc.host.labels = <<>> /\ parsed.netloc.port = NoPort

\* SplitResult.hostname: lower-cased host part of netloc
hostname(parsed) == [labels |-> parsed.netloc.host.labels, upper |-> FALSE]

\* SplitResult.port raises ValueError when the port is outside 0..65535
port_raises(parsed) == parsed.netloc.port # NoPort /\ parsed.netloc.port > 65535

(***************************************************************************)
(* security/url_validation.py                                              *)
(***************************************************************************)
\* variant: the fragment is kept
normalize_url_keeps_fragment(url) == urlunsplit(urlsplit(url))

normalize_url(url) == urlunsplit([urlsplit(url) EXCEPT !.fragment = ""])

\* each operator answers "ok" or the name of the exception it raises
_validate_scheme(parsed) ==
    IF lower(parsed.scheme) \notin allowed_schemes THEN "InvalidUrl" ELSE "ok"

_validate_port(parsed) ==
    IF port_raises(parsed) THEN "ValueError"
    ELSE IF parsed.netloc.port = NoPort THEN "ok"
    ELSE IF parsed.netloc.port \notin allowed_ports THEN "InvalidUrl"
    ELSE "ok"

endswith_suffix(host, suffix) ==
    Len(host.labels) >= 2 /\ host.labels[Len(host.labels)] = suffix

_validate_hostname(host, suffixes_on) ==
    LET lower_host == [host EXCEPT !.upper = FALSE]
    IN  IF lower_host \in blocked_hostnames THEN "BlockedHost"
        ELSE IF suffixes_on /\ \E suffix \in blocked_suffixes : endswith_suffix(lower_host, suffix)
             THEN "BlockedHost"
        ELSE "ok"

\* ipaddress classification of the addresses a DNS answer may hold
Addrs == {"8.8.8.8", "10.0.0.1", "127.0.0.1", "169.254.169.254", "240.0.0.1", "224.0.0.1",
          "not-an-ip"}
is_private(ip) == ip \in {"10.0.0.1", "127.0.0.1", "169.254.169.254", "240.0.0.1"}
is_loopback(ip) == ip = "127.0.0.1"
is_link_local(ip) == ip = "169.254.169.254"
is_reserved(ip) == ip = "240.0.0.1"
is_multicast(ip) == ip = "224.0.0.1"
ip_address_parses(ip) == ip # "not-an-ip"

_ip_is_blocked(ip) ==
    is_private(ip) \/ is_loopback(ip) \/ is_link_local(ip) \/ is_reserved(ip) \/ is_multicast(ip)

\* what socket.getaddrinfo gives for a host: gaierror, or a list of addresses
MaxAddrs == 2
NoLookup == [gaierror |-> FALSE, infos |-> {"no-lookup"}]
DnsAnswers ==
    {[gaierror |-> TRUE, infos |-> {}]}
    \cup {[gaierror |-> FALSE, infos |-> s] : s \in {t \in SUBSET Addrs : Cardinality(t) <= MaxAddrs}}

\* a host name with an empty label cannot be IDNA-encoded: getaddrinfo raises
\* UnicodeError before any lookup; the empty host name does not resolve
idna_fails(host) == \E i \in 1..Len(host.labels) : host.labels[i] = ""

_resolve_ips(host, ans) ==
    IF idna_fails(host) THEN [outcome |-> "UnicodeError", ips |-> {}]
    ELSE IF ans.gaierror \/ host.labels = <<>> THEN [outcome |-> "BlockedHost", ips |-> {}]
    ELSE [outcome |-> "ok", ips |-> {ip \in ans.infos : ip_address_parses(ip)}]

\* variant: the host passes as soon as one resolved address is public
any_ip_blocked_all(ips) == \A ip_obj \in ips : _ip_is_blocked(ip_obj)

any_ip_blocked(ips) == \E ip_obj \in ips : _ip_is_blocked(ip_obj)

\* variant: the URL is returned as given, fragment included
validate_url_target_keeps_fragment(url, suffixes_on, ans) ==
    LET parsed == urlsplit(url)
        host == hostname(parsed)
        r == _resolve_ips(host, ans)
        fail(kind, looked) == [outcome |-> kind, url |-> NoUrl, resolved |-> looked, checked |-> TRUE]
    IN  IF parsed.scheme = "" \/ netloc_empty(parsed) THEN fail("InvalidUrl", FALSE)
        ELSE IF _validate_scheme(parsed) # "ok" THEN fail(_validate_scheme(parsed), FALSE)
        ELSE IF _validate_port(parsed) # "ok" THEN fail(_validate_port(parsed), FALSE)
        ELSE IF _validate_hostname(host, suffixes_on) # "ok"
             THEN fail(_validate_hostname(host, suffixes_on), FALSE)
        ELSE IF r.outcome # "ok" THEN fail(r.outcome, TRUE)
        ELSE IF r.ips = {} THEN fail("BlockedHost", TRUE)
        ELSE IF any_ip_blocked(r.ips) THEN fail("BlockedHost", TRUE)
        ELSE [outcome |-> "ok", url |-> urlunsplit(parsed), resolved |-> TRUE, checked |-> TRUE]

\* validate_url_target(url, settings) with the DNS answer the resolver gives;
\* resolved tells whether getaddrinfo was called, checked that the checks were run
validate_url_target(url, suffixes_on, ans) ==
    LET parsed == urlsplit(url)
        host == hostname(parsed)
        r == _resolve_ips(host, ans)
        fail(kind, looked) == [outcome |-> kind, url |-> NoUrl, resolved |-> looked, checked |-> TRUE]
    IN  IF parsed.scheme = "" \/ netloc_empty(parsed) THEN fail("InvalidUrl", FALSE)
        ELSE IF _validate_scheme(parsed) # "ok" THEN fail(_validate_scheme(parsed), FALSE)
        ELSE IF _validate_port(parsed) # "ok" THEN fail(_validate_port(parsed), FALSE)
        ELSE IF _validate_hostname(host, suffixes_on) # "ok"
             THEN fail(_validate_hostname(host, suffixes_on), FALSE)
        ELSE IF r.outcome # "ok" THEN fail(r.outcome, TRUE)
        ELSE IF r.ips = {} THEN fail("BlockedHost", TRUE)
        ELSE IF any_ip_blocked(r.ips) THEN fail("BlockedHost", TRUE)
        ELSE [outcome |-> "ok", url |-> urlunsplit([parsed EXCEPT !.fragment = ""]),
              resolved |-> TRUE, checked |-> TRUE]

\* variant: the redirect target is only normalised, not validated again
validate_redirect_unchecked(target_url, suffixes_on, count, ans) ==
    IF count >= redirect_limit
    THEN [outcome |-> "InvalidUrl", url |-> NoUrl, resolved |-> FALSE, checked |-> FALSE]
    ELSE [outcome |-> "ok", url |-> normalize_url(target_url), resolved |-> FALSE,
          checked |-> TRUE]

\* variant: the hop counter is compared with > instead of >=
validate_redirect_off_by_one(target_url, suffixes_on, count, ans) ==
    IF count > redirect_limit
    THEN [outcome |-> "InvalidUrl", url |-> NoUrl, resolved |-> FALSE, checked |-> FALSE]
    ELSE validate_url_target(target_url, suffixes_on, ans)

validate_redirect(target_url, suffixes_on, count, ans) ==
    IF count >= redirect_limit
    THEN [outcome |-> "InvalidUrl", url |-> NoUrl, resolved |-> FALSE, checked |-> FALSE]
    ELSE validate_url_target(target_url, suffixes_on, ans)

(***************************************************************************)
(* fetch/client.py: fetch_html                                             *)
(***************************************************************************)
NoResult == [kind |-> "none", status_code |-> 0, final_url |-> NoUrl, total_read |-> 0]
NoVal == [target |-> NoUrl, dns |-> NoLookup, outcome |-> "none", url |-> NoUrl,
          resolved |-> FALSE, checked |-> FALSE]
NoResponse == [exc |-> "none", status_code |-> 0, location |-> "absent", content_length |-> -1,
               chunks |-> <<>>]

\* the record kept of one validator call: its input, the answer the resolver
\* has for the host, and what the call gave
val_record(target, ans, v) ==
    [target |-> target, dns |-> ans, outcome |-> v.outcome, url |-> v.url,
     resolved |-> v.resolved, checked |-> v.checked]

raised(kind) == [kind |-> kind, status_code |-> 0, final_url |-> NoUrl, total_read |-> 0]

\* httpx exceptions client.get may raise; all are httpx.HTTPError, the four
\* timeouts are httpx.TimeoutException
TimeoutExceptions == {"ConnectTimeout", "ReadTimeout", "WriteTimeout", "PoolTimeout"}
HTTPErrors == TimeoutExceptions \cup {"ConnectError"}

\* the except clauses around client.get
get_exception_kind(exc) ==
    IF exc \in {"ConnectTimeout", "ReadTimeout"} THEN "FetchTimeout"
    ELSE "UpstreamFetchFailed"

\* httpx.Response.is_redirect
RedirectCodes == {301, 302, 303, 307, 308}
is_redirect(status_code, location) == status_code \in RedirectCodes /\ location # "absent"

\* the branch "response.is_redirect and response.headers.get('location')"
follows_redirect(status_code, location) ==
    is_redirect(status_code, location) /\ location # "empty"

\* variant: only server errors fail the fetch
status_fails_5xx(status_code) == status_code >= 500

\* if response.status_code >= 400: raise UpstreamFetchFailed
status_fails(status_code) == status_code >= 400

StatusCodes == {200, 301, 404}
LocationKinds == {"absent", "empty", "url"}
ContentLengths == {-1, 1}
MaxChunks == 2
ChunkSizes == {1, 3}
\* a body sent one byte at a time, two bytes longer than the cap
DripBody == [i \in 1..(max_html_bytes + 2) |-> 1]
Bodies == UNION {[1..n -> ChunkSizes] : n \in 0..MaxChunks} \cup {DripBody}
RedirectBodies == {<<>>, <<3, 3>>}

\* variant: the size check uses >= instead of >
RECURSIVE read_body_ge(_, _, _)
read_body_ge(chunks, i, total_read) ==
    IF i > Len(chunks) THEN [too_large |-> FALSE, total_read |-> total_read]
    ELSE IF total_read + chunks[i] >= max_html_bytes
         THEN [too_large |-> TRUE, total_read |-> total_read + chunks[i]]
         ELSE read_body_ge(chunks, i + 1, total_read + chunks[i])

\* the streaming loop over response.aiter_bytes()
RECURSIVE read_body(_, _, _)
read_body(chunks, i, total_read) ==
    IF i > Len(chunks) THEN [too_large |-> FALSE, total_read |-> total_read]
    ELSE IF total_read + chunks[i] > max_html_bytes
         THEN [too_large |-> TRUE, total_read |-> total_read + chunks[i]]
         ELSE read_body(chunks, i + 1, total_read + chunks[i])

\* client.get(url) without stream=True: the transport reads the whole body
\* before the response is handed to fetch_html
RECURSIVE aread(_)
aread(chunks) == IF chunks = <<>> THEN 0 ELSE Head(chunks) + aread(Tail(chunks))

\* client.get(current_url) is given the URL with its host name: the transport
\* resolves the name itself when it connects, and gets the addresses the
\* validator saw or, when the record changed in between, other ones
NoAddr == "none"
ReboundAddrs == {"127.0.0.1"}
TransportAddrs(validated) ==
    {ip \in validated.infos : ip_address_parses(ip)} \cup ReboundAddrs

\* validated_url = validate_url_target(url, settings); redirect_count = 0
FetchStart(url, ans) ==
    /\ pc = "idle"
    /\ LET v == validate_url_target(url, block_internal_suffixes, ans)
       IN  /\ lastVal' = val_record(url, ans, v)
           /\ dns_count' = dns_count + (IF v.resolved THEN 1 ELSE 0)
           /\ IF v.outcome = "ok"
              THEN /\ current_url' = v.url
                   /\ pc' = "get"
                   /\ result' = result
              ELSE /\ current_url' = current_url
                   /\ pc' = "done"
                   /\ result' = raised(v.outcome)
    /\ redirect_count' = 0
    /\ UNCHANGED <<block_internal_suffixes, lastGetUrl, lastConnect, received, get_count,
                   lastResponse>>
    /\ UNCHANGED <<now, cacheVars, limiterVars, serviceVars>>

\* response = await client.get(current_url, headers=headers): the request leaves
SendGet(ip) ==
    /\ pc = "get"
    /\ lastGetUrl' = current_url
    /\ lastConnect' = ip
    /\ received' = 0
    /\ get_count' = get_count + 1
    /\ pc' = "await"
    /\ UNCHANGED <<block_internal_suffixes, current_url, redirect_count, lastVal, dns_count,
                   lastResponse, result>>
    /\ UNCHANGED <<now, cacheVars, limiterVars, serviceVars>>

\* client.get raises
GetRaises(exc) ==
    /\ pc = "await"
    /\ lastResponse' = [NoResponse EXCEPT !.exc = exc]
    /\ result' = raised(get_exception_kind(exc))
    /\ pc' = "done"
    /\ UNCHANGED <<block_internal_suffixes, current_url, redirect_count, lastVal, lastGetUrl,
                   lastConnect, received, get_count, dns_count>>
    /\ UNCHANGED <<now, cacheVars, limiterVars, serviceVars>>

\* a redirect response with a Location: validate the target and loop
GetRedirect(status_code, content_length, chunks, target, ans) ==
    /\ pc = "await"
    /\ follows_redirect(status_code, "url")
    /\ lastResponse' = [exc |-> "none", status_code |-> status_code, location |-> "url",
                        content_length |-> content_length, chunks |-> chunks]
    /\ received' = aread(chunks)
    /\ LET v == validate_redirect(target, block_internal_suffixes, redirect_count, ans)
       IN  /\ lastVal' = val_record(target, ans, v)
           /\ dns_count' = dns_count + (IF v.resolved THEN 1 ELSE 0)
           /\ IF v.outcome = "ok"
              THEN /\ current_url' = v.url
                   /\ redirect_count' = redirect_count + 1
                   /\ pc' = "get"
                   /\ result' = result
              ELSE /\ current_url' = current_url
                   /\ redirect_count' = redirect_count
                   /\ pc' = "done"
                   /\ result' = raised(v.outcome)
    /\ UNCHANGED <<block_internal_suffixes, lastGetUrl, lastConnect, get_count>>
    /\ UNCHANGED <<now, cacheVars, limiterVars, serviceVars>>

\* any other response: status check, then the body is read under the size cap
GetFinal(status_code, location, content_length, chunks) ==
    /\ pc = "await"
    /\ ~follows_redirect(status_code, location)
    /\ lastResponse' = [exc |-> "none", status_code |-> status_code, location |-> location,
                        content_length |-> content_length, chunks |-> chunks]
    /\ received' = aread(chunks)
    /\ LET body == read_body(chunks, 1, 0)
       IN  result' = IF status_fails(status_code) THEN raised("UpstreamFetchFailed")
                     ELSE IF body.too_large THEN raised("ContentTooLarge")
                     ELSE [kind |-> "ok", status_code |-> status_code,
                           final_url |-> current_url, total_read |-> body.total_read]
    /\ pc' = "done"
    /\ UNCHANGED <<block_internal_suffixes, current_url, redirect_count, lastVal, lastGetUrl,
                   lastConnect, get_count, dns_count>>
    /\ UNCHANGED <<now, cacheVars, limiterVars, serviceVars>>


(***************************************************************************)
(* cache/memory_cache.py: MemoryCache                                      *)
(***************************************************************************)
MaxTime == 4
CacheKeys == {"k1", "k2"}
CacheValues == {"v1", "v2"}
NoValue == "None"
NoEntry == [present |-> FALSE, expires_at |-> 0, value |-> NoValue]

\* variant: a hit pushes the expiry forward (sliding expiration)
get_sliding(st, key, t) ==
    LET item == st[key]
    IN  IF ~item.present THEN [value |-> NoValue, store |-> st]
        ELSE IF item.expires_at < t
             THEN [value |-> NoValue, store |-> [st EXCEPT ![key] = NoEntry]]
        ELSE [value |-> item.value,
              store |-> [st EXCEPT ![key].expires_at = t + cache_ttl_seconds]]

\* MemoryCache.get at time t: the value returned and the store left behind
get(st, key, t) ==
    LET item == st[key]
    IN  IF ~item.present THEN [value |-> NoValue, store |-> st]
        ELSE IF item.expires_at < t
             THEN [value |-> NoValue, store |-> [st EXCEPT ![key] = NoEntry]]
        ELSE [value |-> item.value, store |-> st]

\* MemoryCache.set at time t
set(st, key, value, t) ==
    [st EXCEPT ![key] = [present |-> TRUE, expires_at |-> t + cache_ttl_seconds,
                         value |-> value]]

NeverSet == [is_set |-> FALSE, time |-> 0, value |-> NoValue]
NoCacheGet == [called |-> FALSE, key |-> "k1", time |-> 0, value |-> NoValue,
               since |-> NeverSet, present_after |-> FALSE, reads_between |-> 0]

InitClock == now = 0
InitCache ==
    /\ store = [k \in CacheKeys |-> NoEntry]
    /\ lastSetAt = [k \in CacheKeys |-> NeverSet]
    /\ lastCacheGet = NoCacheGet

\* the clock advances
Tick ==
    /\ now < MaxTime
    /\ now' = now + 1
    /\ UNCHANGED <<fetchVars, cacheVars, limiterVars, serviceVars>>

CacheSet(key, value) ==
    /\ store' = set(store, key, value, now)
    /\ lastSetAt' = [lastSetAt EXCEPT ![key] = [is_set |-> TRUE, time |-> now, value |-> value]]
    /\ UNCHANGED <<lastCacheGet, now, fetchVars, limiterVars, serviceVars>>

MaxReads == 2

CacheGet(key) ==
    /\ lastCacheGet.called /\ lastCacheGet.key = key /\ lastCacheGet.since = lastSetAt[key]
          => lastCacheGet.reads_between < MaxReads
    /\ LET r == get(store, key, now)
       IN  /\ store' = r.store
           /\ lastCacheGet' =
                [called |-> TRUE, key |-> key, time |-> now, value |-> r.value,
                 since |-> lastSetAt[key], present_after |-> r.store[key].present,
                 reads_between |->
                    IF lastCacheGet.called /\ lastCacheGet.key = key
                       /\ lastCacheGet.since = lastSetAt[key]
                    THEN lastCacheGet.reads_between + 1 ELSE 0]
    /\ UNCHANGED <<lastSetAt, now, fetchVars, limiterVars, serviceVars>>

(***************************************************************************)
(* rate_limit/backstop.py: SlidingWindowLimiter                            *)
(***************************************************************************)
limit == 2
window_seconds == 2
LimiterKeys == {"a", "b"}
MaxRejected == 2

\* while bucket and bucket[0] < window_start: bucket.popleft()
RECURSIVE evict(_, _)
evict(bucket, window_start) ==
    IF bucket # <<>> /\ Head(bucket) < window_start THEN evict(Tail(bucket), window_start)
    ELSE bucket

\* variant: the bucket is compared with > instead of >=
allow_gt(bucket, t) ==
    LET kept == evict(bucket, t - window_seconds)
    IN  IF Len(kept) > limit THEN [ok |-> FALSE, bucket |-> kept]
        ELSE [ok |-> TRUE, bucket |-> Append(kept, t)]

\* variant: a rejected call is recorded too
allow_records_rejected(bucket, t) ==
    LET kept == evict(bucket, t - window_seconds)
    IN  IF Len(kept) >= limit THEN [ok |-> FALSE, bucket |-> Append(kept, t)]
        ELSE [ok |-> TRUE, bucket |-> Append(kept, t)]

\* SlidingWindowLimiter.allow on the key's bucket at time t
allow(bucket, t) ==
    LET kept == evict(bucket, t - window_seconds)
    IN  IF Len(kept) >= limit THEN [ok |-> FALSE, bucket |-> kept]
        ELSE [ok |-> TRUE, bucket |-> Append(kept, t)]

NoAllow == [called |-> FALSE, key |-> "a", time |-> 0, ok |-> FALSE, before |-> <<>>,
            after |-> <<>>, others_before |-> [k \in LimiterKeys \ {"a"} |-> <<>>],
            recent_before |-> 0, rejected_before |-> 0]

InitLimiter ==
    /\ events = [k \in LimiterKeys |-> <<>>]
    /\ admitted = [k \in LimiterKeys |-> <<>>]
    /\ rejected = [k \in LimiterKeys |-> 0]
    /\ lastAllow = NoAllow

\* the admitted calls of a history in the closed interval [t - window_seconds, t]
InWindow(history, t) ==
    {i \in DOMAIN history : t - window_seconds <= history[i] /\ history[i] <= t}

Allow(key) ==
    LET r == allow(events[key], now)
    IN  /\ r.ok \/ rejected[key] < MaxRejected
        /\ events' = [events EXCEPT ![key] = r.bucket]
        /\ admitted' = IF r.ok THEN [admitted EXCEPT ![key] = Append(@, now)] ELSE admitted
        /\ rejected' = [rejected EXCEPT ![key] = IF r.ok THEN 0 ELSE @ + 1]
        /\ lastAllow' = [called |-> TRUE, key |-> key, time |-> now, ok |-> r.ok,
                         before |-> events[key], after |-> r.bucket,
                         others_before |-> [k \in LimiterKeys \ {key} |-> events[k]],
                         recent_before |-> Cardinality(InWindow(admitted[key], now)),
                         rejected_before |-> rejected[key]]
        /\ UNCHANGED <<now, fetchVars, cacheVars, serviceVars>>

(***************************************************************************)
(* rate_limit/backstop.py: BackstopRateLimiter                             *)
(***************************************************************************)
rate_limit_ip_per_min == 1
rate_limit_domain_per_min == 2
ClientIps == {"10.1.1.1", "10.1.1.2"}
unknown_host == [labels |-> <<"unknown">>, upper |-> FALSE]
LimiterDomains == { [labels |-> <<"example", "com">>, upper |-> FALSE], unknown_host }

\* SlidingWindowLimiter.allow of a limiter constructed with the given limit
limiter_allow(self_limit, bucket, t) ==
    LET kept == evict(bucket, t - window_seconds)
    IN  IF Len(kept) >= self_limit THEN [ok |-> FALSE, bucket |-> kept]
        ELSE [ok |-> TRUE, bucket |-> Append(kept, t)]

\* variant: the per-domain limiter is not consulted once the per-IP limiter rejects
check_short_circuit(ip_bucket, domain_bucket, t) ==
    LET ip_ok == limiter_allow(rate_limit_ip_per_min, ip_bucket, t)
        domain_ok == limiter_allow(rate_limit_domain_per_min, domain_bucket, t)
    IN  IF ~ip_ok.ok
        THEN [ok |-> FALSE, ip_bucket |-> ip_ok.bucket, domain_bucket |-> domain_bucket]
        ELSE [ok |-> domain_ok.ok, ip_bucket |-> ip_ok.bucket,
              domain_bucket |-> domain_ok.bucket]

\* BackstopRateLimiter.check on the two buckets of the caller at time t
check(ip_bucket, domain_bucket, t) ==
    LET ip_ok == limiter_allow(rate_limit_ip_per_min, ip_bucket, t)
        domain_ok == limiter_allow(rate_limit_domain_per_min, domain_bucket, t)
    IN  [ok |-> ip_ok.ok /\ domain_ok.ok, ip_bucket |-> ip_ok.bucket,
         domain_bucket |-> domain_ok.bucket]

NoCheck == [called |-> FALSE, ip |-> "10.1.1.1", domain |-> unknown_host, time |-> 0,
            ok |-> FALSE, ip_before |-> <<>>, ip_after |-> <<>>, domain_before |-> <<>>,
            domain_after |-> <<>>]

check_record(ip, domain, r) ==
    [called |-> TRUE, ip |-> ip, domain |-> domain, time |-> now, ok |-> r.ok,
     ip_before |-> per_ip[ip], ip_after |-> r.ip_bucket,
     domain_before |-> per_domain[domain], domain_after |-> r.domain_bucket]

InitBackstop ==
    /\ per_ip = [k \in ClientIps |-> <<>>]
    /\ per_domain = [k \in LimiterDomains |-> <<>>]
    /\ lastCheck = NoCheck

\* one call rate_limiter.check(ip, domain)
Check(ip, domain) ==
    LET r == check(per_ip[ip], per_domain[domain], now)
    IN  /\ per_ip' = [per_ip EXCEPT ![ip] = r.ip_bucket]
        /\ per_domain' = [per_domain EXCEPT ![domain] = r.domain_bucket]
        /\ lastCheck' = check_record(ip, domain, r)
        /\ UNCHANGED <<now, fetchVars, cacheVars, limiterVars, confidenceVars, pipelineVars,
                     otherVars>>

(***************************************************************************)
(* utils/text.py, utils/time.py.  A text is the string spelled by a        *)
(* sequence of characters; None is NoValue.  A character is one whitespace *)
(* character, one digit or letter, or a whole word that the functions      *)
(* never split.                                                            *)
(***************************************************************************)
\* the characters str.isspace() and \s accept
Whitespace == {" ", "\t", "\n"}

\* "".join(chars)
RECURSIVE Str(_)
Str(chars) == IF chars = <<>> THEN "" ELSE Head(chars) \o Str(Tail(chars))

\* the sequences over an alphabet up to a length
RECURSIVE SeqsUpTo(_, _)
SeqsUpTo(alphabet, n) ==
    IF n = 0 THEN {<<>>}
    ELSE LET shorter == SeqsUpTo(alphabet, n - 1)
         IN  shorter \cup {Append(chars, c) : chars \in shorter, c \in alphabet}

\* the texts of the model: every short text over TextAlphabet, and the texts
\* the pages, settings and drafts are written with
MaxTextLen == 4
TextAlphabet == {"a", " ", "\t"}
Words ==
    { <<" ", "Tomato", " ", " ", "soup", " ">>, <<"Tomato", " ", "soup">>, <<"tomatoes">>,
      <<"salt">>, <<"water">>, <<"chop">>, <<"simmer">>, <<"4">>, <<"line">>,
      <<"http://example.com/soup.jpg">>,
      <<"sign", " ", "in", " ", "to", " ", "continue">>,
      <<"jsonld">>, <<" ", "jsonld">>, <<"microdata">>, <<"heuristic">>, <<"headless">>,
      <<"bogus">>, <<"{'text':", " ", "'a", " ", " ", "a'}">>, <<"{'text':", " ", "'a", " ", "a'}">>,
      <<"7">>, <<"True">> }
TextChars == SeqsUpTo(TextAlphabet, MaxTextLen) \cup Words
TextCodec == {<<Str(chars), chars>> : chars \in TextChars}
Texts == {entry[1] : entry \in TextCodec}

\* the characters of a text
TextIndex == [text \in Texts |-> (CHOOSE entry \in TextCodec : entry[1] = text)[2]]
chars_of(text) == TextIndex[text]

\* WHITESPACE_RE.sub(" ", value): every maximal run of whitespace becomes one space
RECURSIVE sub_whitespace(_, _)
sub_whitespace(chars, in_run) ==
    IF chars = <<>> THEN <<>>
    ELSE IF Head(chars) \in Whitespace
         THEN (IF in_run THEN <<>> ELSE <<" ">>) \o sub_whitespace(Tail(chars), TRUE)
         ELSE <<Head(chars)>> \o sub_whitespace(Tail(chars), FALSE)

\* str.strip() on characters
RECURSIVE lstrip(_)
lstrip(chars) ==
    IF chars # <<>> /\ Head(chars) \in Whitespace THEN lstrip(Tail(chars)) ELSE chars
RECURSIVE rstrip(_)
rstrip(chars) ==
    IF chars # <<>> /\ chars[Len(chars)] \in Whitespace
    THEN rstrip(SubSeq(chars, 1, Len(chars) - 1)) ELSE chars
strip_chars(chars) == rstrip(lstrip(chars))

\* variant: whitespace runs are kept, only the ends are stripped
normalize_whitespace_strip_only(value) ==
    IF value = NoValue THEN NoValue
    ELSE LET collapsed == strip_chars(chars_of(value))
         IN  IF collapsed = <<>> THEN NoValue ELSE Str(collapsed)

\* WHITESPACE_RE.sub(" ", value).strip() or None
normalize_whitespace(value) ==
    IF value = NoValue THEN NoValue
    ELSE LET collapsed == strip_chars(sub_whitespace(chars_of(value), FALSE))
         IN  IF collapsed = <<>> THEN NoValue ELSE Str(collapsed)

RECURSIVE clean_lines(_)
clean_lines(items) ==
    IF items = <<>> THEN <<>>
    ELSE LET normalized == normalize_whitespace(Head(items))
         IN  (IF normalized # NoValue THEN <<normalized>> ELSE <<>>) \o clean_lines(Tail(items))

\* an optional int: the draft's *_time_minutes fields
NoMinutes == [present |-> FALSE, value |-> 0]
Minutes(n) == [present |-> TRUE, value |-> n]

\* the duration texts of the model: P[nD][T[nH][nM][nS]] written from its parts
\* in either case with or without surrounding whitespace, and every short
\* text over DurationAlphabet
MaxDurationLen == 3
DurationAlphabet == {"P", "T", "M", "S", "1", "x"}
NoPart == <<>>
DurationParts ==
    [days : {NoPart, <<"1">>}, t : BOOLEAN, hours : {NoPart, <<"1">>},
     minutes : {NoPart, <<"0">>, <<"3", "0">>}, seconds : {NoPart, <<"0">>, <<"4", "5">>, <<"9", "0">>},
     lower : BOOLEAN, padded : BOOLEAN]
LowerCase(c) ==
    CASE c = "P" -> "p" [] c = "T" -> "t" [] c = "D" -> "d" [] c = "H" -> "h"
      [] c = "M" -> "m" [] c = "S" -> "s" [] OTHER -> c
Written(parts) ==
    LET unit(digits, letter) == IF digits = NoPart THEN <<>> ELSE digits \o <<letter>>
        time == IF parts.t
                THEN <<"T">> \o unit(parts.hours, "H") \o unit(parts.minutes, "M")
                     \o unit(parts.seconds, "S")
                ELSE <<>>
        plain == <<"P">> \o unit(parts.days, "D") \o time
        cased == IF parts.lower THEN [i \in DOMAIN plain |-> LowerCase(plain[i])] ELSE plain
    IN  IF parts.padded THEN <<" ">> \o cased \o <<"\n">> ELSE cased
DurationChars ==
    {Written(parts) : parts \in {q \in DurationParts : q.t \/ (q.hours = NoPart /\ q.minutes = NoPart /\ q.seconds = NoPart)}}
    \cup SeqsUpTo(DurationAlphabet, MaxDurationLen)
DurationCodec == {<<Str(chars), chars>> : chars \in DurationChars}
Durations == {entry[1] : entry \in DurationCodec}
DurationIndex ==
    [text \in Durations |-> (CHOOSE entry \in DurationCodec : entry[1] = text)[2]]
duration_chars(text) == DurationIndex[text]

\* int(digits), for a non-empty run of digits
DigitValue(c) ==
    CASE c = "0" -> 0 [] c = "1" -> 1 [] c = "2" -> 2 [] c = "3" -> 3 [] c = "4" -> 4
      [] c = "5" -> 5 [] c = "6" -> 6 [] c = "7" -> 7 [] c = "8" -> 8 [] c = "9" -> 9
IsDigit(c) == c \in {"0", "1", "2", "3", "4", "5", "6", "7", "8", "9"}
RECURSIVE int(_)
int(digits) ==
    IF digits = <<>> THEN 0
    ELSE 10 * int(SubSeq(digits, 1, Len(digits) - 1)) + DigitValue(digits[Len(digits)])

\* re.IGNORECASE on the letters of the pattern
upper(c) ==
    CASE c = "p" -> "P" [] c = "t" -> "T" [] c = "d" -> "D" [] c = "h" -> "H"
      [] c = "m" -> "M" [] c = "s" -> "S" [] OTHER -> c

\* (?:(?P<name>\d+)U)? at the head of chars: the digits captured (none when
\* the group matches nothing) and the characters after the group
RECURSIVE digits_at(_)
digits_at(chars) ==
    IF chars # <<>> /\ IsDigit(Head(chars)) THEN <<Head(chars)>> \o digits_at(Tail(chars))
    ELSE <<>>
group(chars, unit) ==
    LET digits == digits_at(chars)
        n == Len(digits)
    IN  IF n > 0 /\ Len(chars) > n /\ upper(chars[n + 1]) = unit
        THEN [digits |-> digits, rest |-> SubSeq(chars, n + 2, Len(chars))]
        ELSE [digits |-> <<>>, rest |-> chars]

NoMatch == [matches |-> FALSE, days |-> 0, hours |-> 0, minutes |-> 0, seconds |-> 0]

\* DURATION_RE.match on the stripped characters: whether it matches, and
\* int(group or 0) of each captured group
duration_match(chars) ==
    IF chars = <<>> \/ upper(Head(chars)) # "P" THEN NoMatch
    ELSE LET days == group(Tail(chars), "D")
             has_t == days.rest # <<>> /\ upper(Head(days.rest)) = "T"
             hours == group(Tail(days.rest), "H")
             minutes == group(hours.rest, "M")
             seconds == group(minutes.rest, "S")
         IN  IF days.rest = <<>>
             THEN [matches |-> TRUE, days |-> int(days.digits), hours |-> 0, minutes |-> 0,
                   seconds |-> 0]
             ELSE IF has_t /\ seconds.rest = <<>>
             THEN [matches |-> TRUE, days |-> int(days.digits), hours |-> int(hours.digits),
                   minutes |-> int(minutes.digits), seconds |-> int(seconds.digits)]
             ELSE NoMatch

\* variant: a total of zero minutes is returned as 0
duration_to_minutes_keeps_zero(duration) ==
    IF duration = "" THEN NoMinutes
    ELSE LET match == duration_match(strip_chars(duration_chars(duration)))
             total_minutes == match.days * 24 * 60 + match.hours * 60 + match.minutes
                              + (match.seconds \div 60)
         IN  IF ~match.matches THEN NoMinutes ELSE Minutes(total_minutes)

duration_to_minutes(duration) ==
    IF duration = "" THEN NoMinutes
    ELSE LET match == duration_match(strip_chars(duration_chars(duration)))
             total_minutes == match.days * 24 * 60 + match.hours * 60 + match.minutes
                              + (match.seconds \div 60)
         IN  IF ~match.matches THEN NoMinutes
             ELSE IF total_minutes > 0 THEN Minutes(total_minutes) ELSE NoMinutes

(***************************************************************************)
(* parse/normalize.py                                                      *)
(***************************************************************************)
\* a raw time value: absent, an int, a string, or a value of another type
NoTime == [kind |-> "none", int |-> 0, text |-> ""]
IntTime(n) == [kind |-> "int", int |-> n, text |-> ""]
StrTime(text) == [kind |-> "str", int |-> 0, text |-> text]
OtherTime == [kind |-> "other", int |-> 0, text |-> ""]

_extract_time_minutes(value) ==
    IF value.kind = "none" THEN NoMinutes
    ELSE IF value.kind = "int" THEN Minutes(value.int)
    ELSE duration_to_minutes(value.text)

\* an item of a raw list: None, a str, an int, or a dict {"text": text}
NoneItem == [kind |-> "none", text |-> "", int |-> 0]
StrItem(text) == [kind |-> "str", text |-> text, int |-> 0]
IntItem(n) == [kind |-> "int", text |-> "", int |-> n]
DictItem(text) == [kind |-> "dict", text |-> text, int |-> 0]
StrItems(texts) == [i \in DOMAIN texts |-> StrItem(texts[i])]

\* str(item): a str is itself, an int its decimal digit, a dict its repr
str(item) ==
    CASE item.kind = "str" -> item.text
      [] item.kind = "int" -> Str(<<CHOOSE c \in {"0", "1", "2", "3", "4", "5", "6", "7", "8", "9"} :
                                        DigitValue(c) = item.int>>)
      [] item.kind = "dict" -> "{'text': '" \o item.text \o "'}"
      [] OTHER -> "None"

\* a raw field that should hold a list: a list of items, or a value of another type
List(items) == [is_list |-> TRUE, items |-> items]
NotAList == [is_list |-> FALSE, items |-> <<>>]

\* the dict a strategy returns
RawData(title, ingredients, steps, servings, prep_time, image_url) ==
    [title |-> title, ingredients |-> List(ingredients), steps |-> List(steps),
     servings |-> servings,
     prep_time |-> prep_time, cook_time |-> NoTime, total_time |-> NoTime,
     image_url |-> image_url, author |-> NoValue]

NoSource == [url |-> NoUrl, domain |-> NoUrl.host, strategy |-> "", retrieved_at |-> 0]

normalize_recipe(data, strategy, source_url, domain, t) ==
    LET not_none(item) == item.kind # "none"
        strs(raw_list) ==
            IF raw_list.is_list
            THEN LET kept == SelectSeq(raw_list.items, not_none)
                 IN  [i \in DOMAIN kept |-> str(kept[i])]
            ELSE <<>>
        time_arg(raw) == IF raw.kind \in {"str", "int"} THEN raw ELSE NoTime
    IN  [title |-> normalize_whitespace(data.title),
         ingredients |-> clean_lines(strs(data.ingredients)),
         steps |-> clean_lines(strs(data.steps)),
         servings |-> normalize_whitespace(data.servings),
         prep_time_minutes |-> _extract_time_minutes(time_arg(data.prep_time)),
         cook_time_minutes |-> _extract_time_minutes(time_arg(data.cook_time)),
         total_time_minutes |-> _extract_time_minutes(time_arg(data.total_time)),
         image_url |-> normalize_whitespace(data.image_url),
         author |-> normalize_whitespace(data.author),
         source |-> [url |-> source_url, domain |-> domain, strategy |-> strategy,
                     retrieved_at |-> t]]

\* the calls duration_to_minutes(duration) and normalize_recipe(data, ...) made on their own
NotCalled(value) == [called |-> FALSE, value |-> value]
Called(value) == [called |-> TRUE, value |-> value]
NoDraft == normalize_recipe(RawData(NoValue, <<>>, <<>>, NoValue, NoTime, NoValue), "", NoUrl,
                            NoUrl.host, 0)

InitContent ==
    /\ duration_in = ""
    /\ minutes_out = NotCalled(NoMinutes)
    /\ data_in = RawData(NoValue, <<>>, <<>>, NoValue, NoTime, NoValue)
    /\ draft_out = NotCalled(NoDraft)

DurationToMinutes ==
    /\ ~minutes_out.called
    /\ minutes_out' = Called(duration_to_minutes(duration_in))
    /\ UNCHANGED <<duration_in, data_in, draft_out, now, fetchVars, cacheVars, limiterVars,
                   backstopVars, confidenceVars, pipelineVars, familyVars>>

\* the raw field maps normalize_recipe is applied to: lists of None, str, int and
\* dict items, a field that is no list, and time values of every type
MaxItems == 2
MaxItemChars == 2
Items ==
    {NoneItem, IntItem(7), DictItem(Str(<<"a", " ", " ", "a">>))}
    \cup {StrItem(Str(chars)) : chars \in SeqsUpTo({"a", " "}, MaxItemChars)}
RawLists ==
    {List(items) : items \in SeqsUpTo(Items, MaxItems)}
    \cup {List(<<StrItem(text)>>) : text \in Texts}
    \cup {NotAList}
TimeValues ==
    {NoTime, IntTime(0), IntTime(15), OtherTime}
    \cup {StrTime(Str(chars)) : chars \in {<<"P", "T", "3", "0", "M">>, <<"P", "T", "0", "S">>,
                                            <<"P", "T", "4", "5", "S">>, <<"x">>, <<>>}}
NormalizeInputs ==
    LET base == RawData(Str(<<"a">>), <<>>, <<>>, NoValue, NoTime, NoValue)
    IN  {[base EXCEPT !.ingredients = raw, !.steps = other] :
            raw \in RawLists, other \in {NotAList, List(<<StrItem(Str(<<"a", " ", "\t", "a">>)),
                                                          NoneItem, IntItem(7)>>)}}
        \cup {[base EXCEPT !.prep_time = prep, !.cook_time = cook, !.total_time = total] :
                 prep \in TimeValues, cook \in TimeValues, total \in TimeValues}

NormalizeRecipe ==
    /\ ~draft_out.called
    /\ draft_out' = Called(normalize_recipe(data_in, "jsonld", NoUrl, NoUrl.host, now))
    /\ UNCHANGED <<duration_in, minutes_out, data_in, now, fetchVars, cacheVars, limiterVars,
                   backstopVars, confidenceVars, pipelineVars, familyVars>>

(***************************************************************************)
(* parse/confidence.py.  Scores are held in hundredths.                    *)
(***************************************************************************)
BASE_SCORES(strategy) ==
    CASE strategy = "jsonld" -> 65
      [] strategy = "microdata" -> 55
      [] strategy = "heuristic" -> 35
      [] strategy = "headless_jsonld" -> 60
      [] strategy = "headless_heuristic" -> 40
      [] OTHER -> 0

Min(a, b) == IF a < b THEN a ELSE b
Max(a, b) == IF a > b THEN a ELSE b

\* truthiness of an optional string and of an optional int
truthy_str(value) == value \notin {NoValue, ""}
truthy_int(value) == value.present /\ value.value # 0

\* term in text_blob, for a term of the paywall list: some line mentions it
WallLines == {"Subscribe to read", "sign in to continue", "please enable JavaScript"}
mentions_wall(lines) == \E i \in DOMAIN lines : lines[i] \in WallLines

startswith_headless(strategy) == strategy \in {"headless_jsonld", "headless_heuristic", "headless"}

\* variant: the score is returned without the final clamp
compute_confidence_unclamped(recipe, strategy) ==
    LET bonus_meta == 2 * Cardinality({i \in 1..5 :
                            <<truthy_str(recipe.image_url), truthy_str(recipe.servings),
                              truthy_int(recipe.prep_time_minutes),
                              truthy_int(recipe.cook_time_minutes),
                              truthy_int(recipe.total_time_minutes)>>[i]})
        score == BASE_SCORES(strategy)
                 + (IF Len(recipe.ingredients) >= 3 THEN 10 ELSE 0)
                 + (IF Len(recipe.steps) >= 2 THEN 10 ELSE 0)
                 + (IF truthy_str(recipe.title) THEN 5 ELSE 0)
                 + Min(bonus_meta, 10)
                 - (IF Len(recipe.ingredients) > 60 THEN 10 ELSE 0)
                 - (IF Len(recipe.steps) > 50 THEN 10 ELSE 0)
                 - (IF mentions_wall(recipe.ingredients \o recipe.steps) THEN 15 ELSE 0)
    IN  [score |-> score, warnings |-> <<>>, missing_fields |-> <<>>]

compute_confidence(recipe, strategy) ==
    LET bonus_meta == 2 * Cardinality({i \in 1..5 :
                            <<truthy_str(recipe.image_url), truthy_str(recipe.servings),
                              truthy_int(recipe.prep_time_minutes),
                              truthy_int(recipe.cook_time_minutes),
                              truthy_int(recipe.total_time_minutes)>>[i]})
        raw_score == BASE_SCORES(strategy)
                 + (IF Len(recipe.ingredients) >= 3 THEN 10 ELSE 0)
                 + (IF Len(recipe.steps) >= 2 THEN 10 ELSE 0)
                 + (IF truthy_str(recipe.title) THEN 5 ELSE 0)
                 + Min(bonus_meta, 10)
                 - (IF Len(recipe.ingredients) > 60 THEN 10 ELSE 0)
                 - (IF Len(recipe.steps) > 50 THEN 10 ELSE 0)
                 - (IF mentions_wall(recipe.ingredients \o recipe.steps) THEN 15 ELSE 0)
        score == Max(0, Min(raw_score, 100))
        missing_fields ==
            (IF ~truthy_str(recipe.title) THEN <<"title">> ELSE <<>>)
            \o (IF recipe.ingredients = <<>> THEN <<"ingredients">> ELSE <<>>)
            \o (IF recipe.steps = <<>> THEN <<"steps">> ELSE <<>>)
        warnings ==
            (IF recipe.ingredients = <<>> THEN <<"MISSING_INGREDIENTS">> ELSE <<>>)
            \o (IF recipe.steps = <<>> THEN <<"MISSING_STEPS">> ELSE <<>>)
            \o (IF startswith_headless(strategy) THEN <<"JS_RENDERING_REQUIRED_SUSPECTED">>
                ELSE <<>>)
            \o (IF strategy \in {"heuristic", "headless_heuristic"}
                THEN <<"HEURISTIC_EXTRACTION_USED">> ELSE <<>>)
            \o (IF score < 65 THEN <<"LOW_CONFIDENCE">> ELSE <<>>)
    IN  [score |-> score, warnings |-> warnings, missing_fields |-> missing_fields]

\* the recipes and strategy names compute_confidence is applied to
Lines(n, wall) == [i \in 1..n |-> IF wall /\ i = 1 THEN "sign in to continue" ELSE "line"]
Draft(title, n_ingredients, n_steps, wall, meta) ==
    [title |-> title, ingredients |-> Lines(n_ingredients, wall), steps |-> Lines(n_steps, FALSE),
     servings |-> IF meta THEN "4" ELSE NoValue,
     prep_time_minutes |-> IF meta THEN Minutes(10) ELSE NoMinutes,
     cook_time_minutes |-> IF meta THEN Minutes(20) ELSE NoMinutes,
     total_time_minutes |-> IF meta THEN Minutes(30) ELSE Minutes(0),
     image_url |-> IF meta THEN "http://example.com/soup.jpg" ELSE "",
     author |-> NoValue, source |-> NoSource]
ConfidenceRecipes ==
    { Draft(title, n_ingredients, n_steps, wall, meta) :
        title \in {NoValue, "Tomato soup"}, n_ingredients \in {0, 3, 61},
        n_steps \in {0, 2, 51}, wall \in BOOLEAN, meta \in BOOLEAN }
ConfidenceStrategies ==
    {"jsonld", "microdata", "heuristic", "headless_jsonld", "headless_heuristic", "unknown"}

NoConfidence == [score |-> -1, warnings |-> <<>>, missing_fields |-> <<>>]

InitConfidence ==
    /\ recipe_in = Draft(NoValue, 0, 0, FALSE, FALSE)
    /\ strategy_in = "unknown"
    /\ confidence_out = NoConfidence

\* one call compute_confidence(recipe, strategy)
ComputeConfidence ==
    /\ confidence_out = NoConfidence
    /\ confidence_out' = compute_confidence(recipe_in, strategy_in)
    /\ UNCHANGED <<recipe_in, strategy_in, now, fetchVars, cacheVars, limiterVars, backstopVars,
                   pipelineVars, otherVars>>

(***************************************************************************)
(* parse/jsonld.py, parse/microdata.py, parse/heuristic.py,                *)
(* fetch/headless.py.  A page is held by what the extractors find in it:   *)
(* the first JSON-LD Recipe node, the first schema.org/Recipe microdata    *)
(* item, and the heading, sections and first list the heuristic scans.     *)
(***************************************************************************)
NoData == RawData(NoValue, <<>>, <<>>, NoValue, NoTime, NoValue)
None == [is_none |-> TRUE, data |-> NoData]
Some(data) == [is_none |-> FALSE, data |-> data]

NoNode == [present |-> FALSE, name |-> NoValue, recipeIngredient |-> <<>>,
           recipeInstructions |-> <<>>, recipeYield |-> NoValue, prepTime |-> NoTime,
           image |-> NoValue]
Node(name, recipeIngredient, recipeInstructions, recipeYield, prepTime, image) ==
    [present |-> TRUE, name |-> name, recipeIngredient |-> recipeIngredient,
     recipeInstructions |-> recipeInstructions, recipeYield |-> recipeYield,
     prepTime |-> prepTime, image |-> image]

Html(jsonld, microdata, title, ingredients, instructions) ==
    [jsonld |-> jsonld, microdata |-> microdata, title |-> title,
     ingredients |-> ingredients, instructions |-> instructions]
NoHtml == Html(NoNode, NoNode, NoValue, <<>>, <<>>)

\* _extract_instructions on a list: the str items and the text of the dict items
_extract_instructions(raw_instructions) ==
    LET kept == SelectSeq(raw_instructions, LAMBDA item : item.kind \in {"str", "dict"})
    IN  [i \in DOMAIN kept |-> StrItem(kept[i].text)]

\* variant: a Recipe node without name, ingredients and instructions is no data
extract_from_jsonld_needs_fields(html) ==
    IF ~html.jsonld.present THEN None
    ELSE IF /\ normalize_whitespace(html.jsonld.name) = NoValue
            /\ html.jsonld.recipeIngredient = <<>>
            /\ _extract_instructions(html.jsonld.recipeInstructions) = <<>>
    THEN None
    ELSE Some(RawData(normalize_whitespace(html.jsonld.name), html.jsonld.recipeIngredient,
                      _extract_instructions(html.jsonld.recipeInstructions),
                      html.jsonld.recipeYield,
                      html.jsonld.prepTime, html.jsonld.image))

\* the first Recipe node gives the result, whatever it holds
extract_from_jsonld(html) ==
    IF ~html.jsonld.present THEN None
    ELSE Some(RawData(normalize_whitespace(html.jsonld.name), html.jsonld.recipeIngredient,
                      _extract_instructions(html.jsonld.recipeInstructions),
                      html.jsonld.recipeYield,
                      html.jsonld.prepTime, html.jsonld.image))

\* the first schema.org/Recipe item gives the result; blank texts are dropped
extract_from_microdata(html) ==
    IF ~html.microdata.present THEN None
    ELSE Some(RawData(normalize_whitespace(html.microdata.name),
                      StrItems(clean_lines(html.microdata.recipeIngredient)),
                      StrItems(clean_lines(html.microdata.recipeInstructions)),
                      normalize_whitespace(html.microdata.recipeYield),
                      html.microdata.prepTime, normalize_whitespace(html.microdata.image)))

\* title, ingredient section and instruction section; None when all are empty
extract_with_heuristics(html) ==
    LET title == normalize_whitespace(html.title)
        ingredients == clean_lines(html.ingredients)
        instructions == clean_lines(html.instructions)
    IN  IF ingredients # <<>> \/ instructions # <<>> \/ title # NoValue
        THEN Some(RawData(title, StrItems(ingredients), StrItems(instructions), NoValue,
                          NoTime, NoValue))
        ELSE None

\* variant: the renderer returns a page that holds a JSON-LD recipe
render_page_html_renders(url) ==
    Html(Node("Tomato soup", <<>>, <<>>, NoValue, NoTime, NoValue), NoNode, NoValue, <<>>, <<>>)

\* render_page_html: the stub renders nothing
render_page_html(url) == NoHtml

(***************************************************************************)
(* parse/pipeline.py: the strategy loop of run_pipeline                    *)
(***************************************************************************)
\* item.strip() on the items of the comma-separated setting
strip(item) == Str(strip_chars(chars_of(item)))

strategy_order(setting) ==
    LET stripped == [i \in DOMAIN setting |-> strip(setting[i])]
    IN  SelectSeq(stripped, LAMBDA item : item # "")

NoLoop == [recipe_data |-> None, used_strategy |-> "unknown", warnings |-> <<>>,
           attempted |-> <<>>]

\* variant: the loop goes on after a strategy returned data
RECURSIVE run_strategies_no_break(_, _, _, _, _)
run_strategies_no_break(order, html, domain, headless_on, acc) ==
    IF order = <<>> THEN acc
    ELSE LET strategy == Head(order)
             rest == Tail(order)
             tried(name, found) ==
                 [acc EXCEPT !.recipe_data = found,
                             !.used_strategy = IF found.is_none THEN @ ELSE name,
                             !.attempted = Append(@, name)]
             extract(name, found) ==
                 run_strategies_no_break(rest, html, domain, headless_on, tried(name, found))
             warned == [acc EXCEPT !.warnings = Append(@, "JS_RENDERING_REQUIRED_SUSPECTED")]
         IN  IF strategy = "jsonld" THEN extract("jsonld", extract_from_jsonld(html))
             ELSE IF strategy = "microdata"
                  THEN extract("microdata", extract_from_microdata(html))
             ELSE IF strategy = "heuristic"
                  THEN extract("heuristic", extract_with_heuristics(html))
             ELSE run_strategies_no_break(rest, html, domain, headless_on,
                                          IF strategy = "headless" THEN warned ELSE acc)

\* for strategy in strategy_order: ...; acc holds recipe_data, used_strategy,
\* warnings and the list of extractor calls made so far
RECURSIVE run_strategies(_, _, _, _, _)
run_strategies(order, html, domain, headless_on, acc) ==
    IF order = <<>> THEN acc
    ELSE LET strategy == Head(order)
             rest == Tail(order)
             tried(name, found) ==
                 [acc EXCEPT !.recipe_data = found,
                             !.used_strategy = IF found.is_none THEN @ ELSE name,
                             !.attempted = Append(@, name)]
             extract(name, found) ==
                 IF found.is_none
                 THEN run_strategies(rest, html, domain, headless_on, tried(name, found))
                 ELSE tried(name, found)
             warned == [acc EXCEPT !.warnings = Append(@, "JS_RENDERING_REQUIRED_SUSPECTED")]
             rendered_html == render_page_html(domain)
             from_rendered_jsonld == extract_from_jsonld(rendered_html)
             from_rendered_heuristic == extract_with_heuristics(rendered_html)
             rendered(found) ==
                 [acc EXCEPT !.recipe_data = found, !.attempted = Append(@, "headless")]
         IN  IF strategy = "jsonld" THEN extract("jsonld", extract_from_jsonld(html))
             ELSE IF strategy = "microdata"
                  THEN extract("microdata", extract_from_microdata(html))
             ELSE IF strategy = "heuristic"
                  THEN extract("heuristic", extract_with_heuristics(html))
             ELSE IF strategy = "headless"
                  THEN IF ~headless_on
                       THEN run_strategies(rest, html, domain, headless_on, warned)
                       ELSE IF headless_allowlist_domains # {}
                               /\ domain \notin headless_allowlist_domains
                       THEN run_strategies(rest, html, domain, headless_on, warned)
                       ELSE IF rendered_html = NoHtml
                       THEN run_strategies(rest, html, domain, headless_on,
                                           [warned EXCEPT !.attempted = Append(@, "headless")])
                       ELSE IF ~from_rendered_jsonld.is_none
                       THEN [rendered(from_rendered_jsonld)
                                EXCEPT !.used_strategy = "headless_jsonld"]
                       ELSE IF ~from_rendered_heuristic.is_none
                       THEN [rendered(from_rendered_heuristic)
                                EXCEPT !.used_strategy = "headless_heuristic"]
                       ELSE run_strategies(rest, html, domain, headless_on,
                                           rendered(from_rendered_heuristic))
             ELSE run_strategies(rest, html, domain, headless_on, acc)

\* list(dict.fromkeys(items)): the first occurrence of each item, in order
RECURSIVE dedupe(_, _)
dedupe(items, seen) ==
    IF items = <<>> THEN <<>>
    ELSE IF Head(items) \in seen THEN dedupe(Tail(items), seen)
    ELSE <<Head(items)>> \o dedupe(Tail(items), seen \cup {Head(items)})

(***************************************************************************)
(* parse/pipeline.py: run_pipeline, and app.py: parse_recipe               *)
(***************************************************************************)
MaxRequests == 3

\* the URLs clients ask for, and what the network answers
PipelineUrls ==
    { Url("http", <<"example", "com">>, FALSE, NoPort, "none"),
      Url("http", <<"example", "com">>, FALSE, NoPort, "frag"),
      Url("http", <<"example", "com">>, FALSE, 80, "none") }
PipelineTargets == { Url("http", <<"example", "com">>, FALSE, 80, "none") }
PipelineDns == { [gaierror |-> FALSE, infos |-> {"8.8.8.8"}],
                 [gaierror |-> FALSE, infos |-> {"10.0.0.1"}] }
PipelineErrors == {"ReadTimeout"}
PipelineStatusCodes == {200, 404}
PipelineBodies == {<<1>>, <<3, 3>>}
PipelineKeys == PipelineUrls \cup PipelineTargets

\* the pages a site serves
FullNode ==
    Node(" Tomato  soup ",
         <<StrItem("tomatoes"), NoneItem, StrItem("  "), StrItem("salt"), StrItem("water")>>,
         <<StrItem("chop"), IntItem(7), DictItem("simmer")>>, "4", StrTime("PT30M"),
         "http://example.com/soup.jpg")
EmptyNode == Node(NoValue, <<>>, <<>>, NoValue, NoTime, NoValue)
BlankNode == Node("  ", <<NoneItem, StrItem("  ")>>, <<IntItem(7), NoneItem>>, NoValue, NoTime,
                  NoValue)
SparseItem == Node("Tomato soup", <<"tomatoes">>, <<>>, NoValue, StrTime("PT45S"), NoValue)
Pages ==
    { NoHtml,
      Html(FullNode, NoNode, "Tomato soup", <<>>, <<>>),
      Html(EmptyNode, SparseItem, NoValue, <<>>, <<>>),
      Html(BlankNode, NoNode, "Tomato soup", <<"tomatoes">>, <<"chop">>),
      Html(NoNode, NoNode, "Tomato soup",
           <<"tomatoes", "salt", "sign in to continue">>, <<"chop">>) }

StrategyOrders ==
    { <<"jsonld", "microdata", "heuristic", "headless">>,
      <<"bogus", " ", "microdata", " jsonld">> }

\* url_host = urlsplit(str(payload.url)).hostname or "unknown"
url_host(url) ==
    IF hostname(urlsplit(url)).labels = <<>> THEN unknown_host ELSE hostname(urlsplit(url))

NoPayload == [recipe |-> Draft(NoValue, 0, 0, FALSE, FALSE), confidence |-> 0,
              warnings |-> <<>>, missing_fields |-> <<>>]

\* cache.get(key) and the test "if cached": the payloads stored are non-empty dicts
lookup(st, key, t) ==
    LET r == get(st, key, t)
    IN  [hit |-> r.store[key].present, value |-> r.value, store |-> r.store]

\* variant: the cache is consulted before the limiter, and a hit skips the limiter
parse_recipe_cache_first(ip_bucket, domain_bucket, st, url, t) ==
    LET r == check(ip_bucket, domain_bucket, t)
        cached == lookup(st, normalize_url(url), t)
    IN  IF cached.hit
        THEN [ok |-> TRUE, ip_bucket |-> ip_bucket, domain_bucket |-> domain_bucket,
              cache_gets |-> 1, hit |-> TRUE, value |-> cached.value, store |-> cached.store]
        ELSE [ok |-> r.ok, ip_bucket |-> r.ip_bucket, domain_bucket |-> r.domain_bucket,
              cache_gets |-> 1, hit |-> FALSE, value |-> NoPayload, store |-> cached.store]

\* parse_recipe up to the first await of run_pipeline: the limiter check, then
\* the lookup under the canonical key
parse_recipe(ip_bucket, domain_bucket, st, url, t) ==
    LET r == check(ip_bucket, domain_bucket, t)
        cached == lookup(st, normalize_url(url), t)
    IN  IF ~r.ok
        THEN [ok |-> FALSE, ip_bucket |-> r.ip_bucket, domain_bucket |-> r.domain_bucket,
              cache_gets |-> 0, hit |-> FALSE, value |-> NoPayload, store |-> st]
        ELSE [ok |-> TRUE, ip_bucket |-> r.ip_bucket, domain_bucket |-> r.domain_bucket,
              cache_gets |-> 1, hit |-> cached.hit,
              value |-> IF cached.hit THEN cached.value ELSE NoPayload,
              store |-> cached.store]

\* if not recipe_data: the empty draft, the fallback label and the warning
found_or_empty(loop) ==
    IF loop.recipe_data.is_none
    THEN [recipe_data |-> NoData,
          used_strategy |-> IF loop.used_strategy # "unknown" THEN loop.used_strategy
                            ELSE "heuristic",
          warnings |-> Append(loop.warnings, "NO_RECIPE_SCHEMA_FOUND"),
          attempted |-> loop.attempted]
    ELSE [recipe_data |-> loop.recipe_data.data, used_strategy |-> loop.used_strategy,
          warnings |-> loop.warnings, attempted |-> loop.attempted]

\* response_payload, with the strategy, the domain and the extractor calls made
response_payload(found, normalized, conf, domain) ==
    [outcome |-> "ok",
     payload |-> [recipe |-> normalized, confidence |-> conf.score,
                  warnings |-> dedupe(found.warnings \o conf.warnings, {}),
                  missing_fields |-> conf.missing_fields],
     strategy |-> found.used_strategy, domain |-> domain, attempted |-> found.attempted]

\* confidence, conf_warnings, missing_fields = compute_confidence(normalized, used_strategy)
scored(found, normalized, domain) ==
    response_payload(found, normalized, compute_confidence(normalized, found.used_strategy),
                     domain)

\* normalized = normalize_recipe(recipe_data, used_strategy, final_url, domain)
normalized_and_scored(found, final_url, domain, t) ==
    scored(found, normalize_recipe(found.recipe_data, found.used_strategy, final_url, domain, t),
           domain)

\* variant: a page from which no strategy got data is a parse failure
extract_and_score_strict(html, final_url, order_setting, headless_on, t) ==
    LET domain == hostname(urlsplit(final_url))
        loop == run_strategies(strategy_order(order_setting), html, domain, headless_on, NoLoop)
    IN  [normalized_and_scored(found_or_empty(loop), final_url, domain, t)
            EXCEPT !.outcome = IF loop.recipe_data.is_none THEN "ParseFailed" ELSE "ok"]

\* run_pipeline from the strategy loop to response_payload
extract_and_score(html, final_url, order_setting, headless_on, t) ==
    normalized_and_scored(
        found_or_empty(run_strategies(strategy_order(order_setting), html,
                                      hostname(urlsplit(final_url)), headless_on, NoLoop)),
        final_url, hostname(urlsplit(final_url)), t)

\* variant: the payload is stored under the final-URL key only
store_result_final_only(st, cache_key, canonical, payload, t) ==
    set(st, cache_key, payload, t)

\* variant: an empty draft is not stored
store_result_skips_empty(st, cache_key, canonical, payload, t) ==
    IF Len(payload.missing_fields) = 3 THEN st
    ELSE IF cache_key # canonical
    THEN set(set(st, cache_key, payload, t), canonical, payload, t)
    ELSE set(st, cache_key, payload, t)

\* cache.set(cache_key, ...); if cache_key != canonical_url: cache.set(canonical_url, ...)
store_result(st, cache_key, canonical, payload, t) ==
    IF cache_key # canonical
    THEN set(set(st, cache_key, payload, t), canonical, payload, t)
    ELSE set(st, cache_key, payload, t)

\* variant: a failed fetch leaves an empty payload in the cache
fetch_failed_negative_cache(st, canonical, kind, t) ==
    [kind |-> kind, store |-> set(st, canonical, NoPayload, t), cache_sets |-> 1]

\* fetch_html raised: the exception leaves run_pipeline as it is
fetch_failed(st, canonical, kind, t) ==
    [kind |-> kind, store |-> st, cache_sets |-> 0]

\* exceptions.py, and the handlers of app.py: what the caller gets for each
\* error kind; an exception that leaves parse_recipe and is no ImporterError
\* has no handler and gets the server's plain 500 answer
ImporterErrors ==
    {"FetchTimeout", "ContentTooLarge", "BlockedHost", "InvalidUrl", "UpstreamFetchFailed",
     "ParseFailed"}
error_response(kind) ==
    CASE kind = "FetchTimeout" ->
            [code |-> "FETCH_TIMEOUT", status_code |-> 408, message |-> "Upstream fetch timed out"]
      [] kind = "ContentTooLarge" ->
            [code |-> "CONTENT_TOO_LARGE", status_code |-> 413, message |-> "Content too large"]
      [] kind = "BlockedHost" ->
            [code |-> "BLOCKED_HOST", status_code |-> 400, message |-> "Host is blocked"]
      [] kind = "InvalidUrl" ->
            [code |-> "INVALID_URL", status_code |-> 400, message |-> "Invalid URL"]
      [] kind = "UpstreamFetchFailed" ->
            [code |-> "UPSTREAM_FETCH_FAILED", status_code |-> 502,
             message |-> "Upstream fetch failed"]
      [] kind = "ParseFailed" ->
            [code |-> "PARSE_FAILED", status_code |-> 500, message |-> "Parsing failed"]
      [] kind = "RATE_LIMITED" ->
            [code |-> "RATE_LIMITED", status_code |-> 429, message |-> "Rate limit exceeded"]
      [] OTHER -> [code |-> "", status_code |-> 500, message |-> "Internal Server Error"]

\* the exceptions that are no ImporterError, named by their text
UnexpectedErrors == {"RecursionError: maximum recursion depth exceeded", "ValidationError"}

\* variant: the exception raised in run_pipeline is passed on as it is
pipeline_error_passed_on(exc) == exc

\* parse_recipe: except ImporterError: raise; except Exception: raise ParseFailed()
pipeline_error(exc) == IF exc \in ImporterErrors THEN exc ELSE "ParseFailed"

NotCompleted == [done |-> FALSE, time |-> 0, computed |-> FALSE, computed_time |-> 0]

\* which keys the store holds, and until when
StoreShape(st) == [k \in DOMAIN st |-> [present |-> st[k].present, expires_at |-> st[k].expires_at]]

NoRequest == [ip |-> "10.1.1.1", url |-> NoUrl, time |-> 0, ok |-> FALSE,
              prior |-> NotCompleted, shape |-> <<>>]
NoAnswer == [code |-> "none", from |-> "none", payload |-> NoPayload, strategy |-> "",
             domain |-> NoUrl.host, upstream_status |-> 0, fetch_timing_ms |-> "none",
             attempted |-> <<>>, cache_gets |-> 0, cache_sets |-> 0, key |-> NoUrl,
             final_key |-> NoUrl, time |-> 0, page |-> NoHtml, raised |-> "", raised_in |-> ""]

DefaultOrder == <<"jsonld", "microdata", "heuristic", "headless">>

InitPipeline ==
    /\ importer_strategy_order = DefaultOrder
    /\ enable_headless = FALSE
    /\ headless_allowlist_domains = {}
    /\ ppc = "idle"
    /\ request = NoRequest
    /\ canonical_url = NoUrl
    /\ response = NoAnswer
    /\ completed = [k \in PipelineKeys |-> NotCompleted]
    /\ requests = 0

\* PipelineResult of a cache hit: strategy and domain come from the cached recipe
cached_result(cached, key, final_key, from, upstream_status, fetch_timing_ms, gets, t) ==
    [code |-> "OK", from |-> from, payload |-> cached,
     strategy |-> cached.recipe.source.strategy, domain |-> cached.recipe.source.domain,
     upstream_status |-> upstream_status, fetch_timing_ms |-> fetch_timing_ms,
     attempted |-> <<>>, cache_gets |-> gets, cache_sets |-> 0, key |-> key,
     final_key |-> final_key, time |-> t, page |-> NoHtml, raised |-> "", raised_in |-> ""]

\* POST /v1/parse arrives: rate-limit check, canonical key, first cache lookup
ParseRequest(ip, url) ==
    /\ ppc = "idle"
    /\ requests < MaxRequests
    /\ LET domain == url_host(url)
           canonical == normalize_url(url)
           p == parse_recipe(per_ip[ip], per_domain[domain], store, url, now)
       IN  /\ per_ip' = [per_ip EXCEPT ![ip] = p.ip_bucket]
           /\ per_domain' = [per_domain EXCEPT ![domain] = p.domain_bucket]
           /\ lastCheck' = check_record(ip, domain, p)
           /\ store' = p.store
           /\ request' = [ip |-> ip, url |-> url, time |-> now, ok |-> p.ok,
                          prior |-> completed[canonical], shape |-> StoreShape(store)]
           /\ canonical_url' = IF p.ok THEN canonical ELSE canonical_url
           /\ IF ~p.ok
              THEN /\ response' = [NoAnswer EXCEPT !.code = "RATE_LIMITED", !.from = "limiter",
                                                   !.cache_gets = p.cache_gets, !.time = now]
                   /\ ppc' = "idle"
              ELSE IF p.hit
              THEN /\ response' = cached_result(p.value, canonical, NoUrl, "cache", 200, "0.0",
                                                p.cache_gets, now)
                   /\ ppc' = "idle"
              ELSE /\ response' = [NoAnswer EXCEPT !.cache_gets = p.cache_gets, !.key = canonical]
                   /\ ppc' = "fetch"
    /\ requests' = requests + 1
    /\ pc' = "idle"
    /\ current_url' = NoUrl
    /\ redirect_count' = 0
    /\ lastVal' = NoVal
    /\ lastGetUrl' = NoUrl
    /\ lastConnect' = NoAddr
    /\ received' = 0
    /\ get_count' = 0
    /\ dns_count' = 0
    /\ lastResponse' = NoResponse
    /\ result' = NoResult
    /\ UNCHANGED <<block_internal_suffixes, now, lastSetAt, lastCacheGet, limiterVars,
                   confidenceVars, importer_strategy_order, enable_headless,
                   headless_allowlist_domains, completed,
                   otherVars>>

\* run_pipeline after fetch_html: the lookup under the final URL's key (second),
\* extraction to payload (e), the two cache writes, and the response of parse_recipe
after_fetch(html, cache_key, second, e) ==
    LET differs == cache_key # canonical_url
        after_second == IF differs THEN second.store ELSE store
        gets == IF differs THEN 2 ELSE 1
        f == fetch_failed(store, canonical_url, result.kind, now)
        stored == store_result(after_second, cache_key, canonical_url, e.payload, now)
        done(computed) == [k \in PipelineKeys |->
                             IF k \in {cache_key, canonical_url}
                             THEN [done |-> TRUE, time |-> now,
                                   computed |-> computed \/ completed[k].computed,
                                   computed_time |-> IF computed THEN now
                                                     ELSE completed[k].computed_time]
                             ELSE completed[k]]
    IN  IF result.kind # "ok"
        THEN /\ response' = [NoAnswer EXCEPT !.code = pipeline_error(f.kind),
                                             !.from = "error",
                                             !.cache_gets = 1, !.cache_sets = f.cache_sets,
                                             !.key = canonical_url, !.time = now]
             /\ store' = f.store
             /\ UNCHANGED <<lastSetAt, completed>>
        ELSE IF differs /\ second.hit
        THEN /\ response' = cached_result(second.value, canonical_url, cache_key,
                                          "final_cache", result.status_code, "elapsed_ms",
                                          gets, now)
             /\ store' = second.store
             /\ completed' = done(FALSE)
             /\ UNCHANGED lastSetAt
        ELSE IF e.outcome # "ok"
        THEN /\ response' = [NoAnswer EXCEPT !.code = e.outcome, !.from = "error",
                                             !.attempted = e.attempted,
                                             !.cache_gets = gets, !.key = canonical_url,
                                             !.final_key = cache_key, !.time = now,
                                             !.page = html]
             /\ store' = after_second
             /\ UNCHANGED <<lastSetAt, completed>>
        ELSE /\ response' = [code |-> "OK", from |-> "computed", payload |-> e.payload,
                             strategy |-> e.strategy, domain |-> e.domain,
                             upstream_status |-> result.status_code,
                             fetch_timing_ms |-> "elapsed_ms", attempted |-> e.attempted,
                             cache_gets |-> gets,
                             cache_sets |-> IF differs THEN 2 ELSE 1,
                             key |-> canonical_url, final_key |-> cache_key, time |-> now,
                             page |-> html, raised |-> "", raised_in |-> ""]
             /\ store' = stored
             /\ lastSetAt' = [k \in PipelineKeys |->
                                 IF stored[k] # after_second[k]
                                 THEN [is_set |-> TRUE, time |-> now, value |-> e.payload]
                                 ELSE lastSetAt[k]]
             /\ completed' = done(TRUE)

\* fetch_html returned or raised: the rest of run_pipeline and of parse_recipe
PipelineFetched(html) ==
    /\ ppc = "fetch"
    /\ pc = "done"
    /\ after_fetch(html, normalize_url(result.final_url),
                   lookup(store, normalize_url(result.final_url), now),
                   extract_and_score(html, result.final_url, importer_strategy_order,
                                     enable_headless, now))
    /\ ppc' = "idle"
    /\ UNCHANGED <<fetchVars, now, lastCacheGet, limiterVars, backstopVars, confidenceVars,
                   importer_strategy_order, enable_headless, headless_allowlist_domains,
                   request, canonical_url, requests,
                   otherVars>>

\* run_pipeline after a successful fetch_html and two missed lookups, ending in
\* an exception that is no ImporterError
raised_after_fetch(html, exc, where, cache_key, second, e) ==
    LET differs == cache_key # canonical_url
        after_second == IF differs THEN second.store ELSE store
        gets == IF differs THEN 2 ELSE 1
        stored == store_result(after_second, cache_key, canonical_url, e.payload, now)
        answer(kind, sets) ==
            [NoAnswer EXCEPT !.code = kind, !.from = "error", !.cache_gets = gets,
                             !.cache_sets = sets, !.key = canonical_url,
                             !.final_key = cache_key, !.time = now, !.page = html,
                             !.raised = exc, !.raised_in = where]
    IN  /\ ~(differs /\ second.hit)
        /\ IF where = "run_pipeline"
           THEN /\ response' = answer(pipeline_error(exc), 0)
                /\ store' = after_second
                /\ UNCHANGED lastSetAt
           ELSE /\ response' = answer(exc, IF differs THEN 2 ELSE 1)
                /\ store' = stored
                /\ lastSetAt' = [k \in PipelineKeys |->
                                    IF stored[k] # after_second[k]
                                    THEN [is_set |-> TRUE, time |-> now, value |-> e.payload]
                                    ELSE lastSetAt[k]]

\* fetch_html returned and both lookups missed, and an exception that is no
\* ImporterError is raised: inside run_pipeline (extraction, normalization,
\* scoring), where the except clause of parse_recipe turns it into ParseFailed,
\* or in parse_recipe after run_pipeline returned, while the response is built
PipelineRaises(html, exc, where) ==
    /\ ppc = "fetch"
    /\ pc = "done"
    /\ result.kind = "ok"
    /\ raised_after_fetch(html, exc, where, normalize_url(result.final_url),
                          lookup(store, normalize_url(result.final_url), now),
                          extract_and_score(html, result.final_url, importer_strategy_order,
                                            enable_headless, now))
    /\ ppc' = "idle"
    /\ UNCHANGED <<fetchVars, now, lastCacheGet, limiterVars, backstopVars, confidenceVars,
                   importer_strategy_order, enable_headless, headless_allowlist_domains,
                   request, canonical_url, requests, completed, otherVars>>

(***************************************************************************)
(* The family API (apps/api): routers/auth.py signup, routers/family.py    *)
(* remove_member, permissions.py.  Each handler is a coroutine that gives  *)
(* way to the others at every database call.                               *)
(***************************************************************************)
MaxFamilyRequests == 3
Handlers == {"h1", "h2"}
People == {"ann", "bob", "cat"}
NotACuid == "x"

Membership(userId, role) == [userId |-> userId, role |-> role]
NoMembership == Membership("none", "none")
NoHandler == [op |-> "none", pc |-> "idle", user |-> "none", key_ok |-> FALSE,
              target |-> "none", role |-> "none", membership |-> NoMembership,
              status_code |-> 0]

\* a family space without members, and one that already has an owner and an admin
InitMemberships == { {}, {Membership("ann", "owner"), Membership("bob", "admin")} }
InitFamilyWith(rows) ==
    /\ memberships = rows
    /\ users = {m.userId : m \in rows}
    /\ handlers = [h \in Handlers |-> NoHandler]
    /\ removed = {}
    /\ family_requests = 0
InitFamily == InitFamilyWith({})

is_owner_or_admin(user) == user.role \in {"owner", "admin"}

can_remove_member(current_user, target_user_id, target_role) ==
    IF ~is_owner_or_admin(current_user) THEN FALSE
    ELSE IF target_user_id = current_user.id THEN FALSE
    ELSE IF target_role = "owner" THEN FALSE
    ELSE TRUE

\* the handler answers and is free for the next request
answered(h, status_code) == [h EXCEPT !.pc = "idle", !.status_code = status_code]

\* signup: prisma.user.find_unique(where emailOrUsername)
SignupFindUser(h, emailOrUsername, key_ok) ==
    /\ handlers[h].pc = "idle"
    /\ family_requests < MaxFamilyRequests
    /\ family_requests' = family_requests + 1
    /\ LET call == [NoHandler EXCEPT !.op = "signup", !.user = emailOrUsername,
                                     !.key_ok = key_ok]
       IN  handlers' = [handlers EXCEPT ![h] =
                           IF emailOrUsername \in users THEN answered(call, 400)
                           ELSE [call EXCEPT !.pc = "find_space"]]
    /\ UNCHANGED <<users, memberships, removed>>
    /\ UNCHANGED <<fetchVars, now, cacheVars, limiterVars, backstopVars, confidenceVars,
                   pipelineVars, contentVars>>

\* signup: prisma.familyspace.find_first() gives the one family space; verify_password
SignupFindSpace(h) ==
    /\ handlers[h].op = "signup" /\ handlers[h].pc = "find_space"
    /\ handlers' = [handlers EXCEPT ![h] =
                       IF ~@.key_ok THEN answered(@, 400) ELSE [@ EXCEPT !.pc = "count"]]
    /\ UNCHANGED <<users, memberships, removed, family_requests>>
    /\ UNCHANGED <<fetchVars, now, cacheVars, limiterVars, backstopVars, confidenceVars,
                   pipelineVars, contentVars>>

\* signup: members_count = prisma.familymembership.count(...); role = ...
SignupCount(h) ==
    /\ handlers[h].op = "signup" /\ handlers[h].pc = "count"
    /\ LET members_count == Cardinality(memberships)
           role == IF members_count = 0 THEN "owner" ELSE "member"
       IN  handlers' = [handlers EXCEPT ![h] = [@ EXCEPT !.role = role, !.pc = "create"]]
    /\ UNCHANGED <<users, memberships, removed, family_requests>>
    /\ UNCHANGED <<fetchVars, now, cacheVars, limiterVars, backstopVars, confidenceVars,
                   pipelineVars, contentVars>>

\* signup: the transaction creating the user and the membership; the unique
\* emailOrUsername makes the transaction fail when the user exists by now
SignupCreate(h) ==
    /\ handlers[h].op = "signup" /\ handlers[h].pc = "create"
    /\ LET call == handlers[h]
       IN  IF call.user \in users
           THEN /\ handlers' = [handlers EXCEPT ![h] = answered(@, 500)]
                /\ UNCHANGED <<users, memberships>>
           ELSE /\ users' = users \cup {call.user}
                /\ memberships' = memberships \cup {Membership(call.user, call.role)}
                /\ handlers' = [handlers EXCEPT ![h] = answered(@, 201)]
    /\ UNCHANGED <<removed, family_requests>>
    /\ UNCHANGED <<fetchVars, now, cacheVars, limiterVars, backstopVars, confidenceVars,
                   pipelineVars, contentVars>>

\* remove_member: get_current_user reads the caller's membership; is_cuid(user_id)
RemoveCurrentUser(h, caller, user_id) ==
    /\ handlers[h].pc = "idle"
    /\ family_requests < MaxFamilyRequests
    /\ family_requests' = family_requests + 1
    /\ LET call == [NoHandler EXCEPT !.op = "remove_member", !.user = caller,
                                     !.target = user_id]
           own == {m \in memberships : m.userId = caller}
       IN  handlers' = [handlers EXCEPT ![h] =
                           IF caller \notin users \/ own = {} THEN answered(call, 401)
                           ELSE IF user_id = NotACuid
                                THEN answered([call EXCEPT !.role = (CHOOSE m \in own : TRUE).role],
                                              404)
                           ELSE [call EXCEPT !.role = (CHOOSE m \in own : TRUE).role,
                                             !.pc = "find"]]
    /\ UNCHANGED <<users, memberships, removed>>
    /\ UNCHANGED <<fetchVars, now, cacheVars, limiterVars, backstopVars, confidenceVars,
                   pipelineVars, contentVars>>

\* remove_member: prisma.familymembership.find_first(...); can_remove_member
RemoveFind(h) ==
    /\ handlers[h].op = "remove_member" /\ handlers[h].pc = "find"
    /\ LET call == handlers[h]
           found == {m \in memberships : m.userId = call.target}
           membership == CHOOSE m \in found : TRUE
           current_user == [id |-> call.user, role |-> call.role]
       IN  handlers' = [handlers EXCEPT ![h] =
                           IF found = {} THEN answered(call, 404)
                           ELSE IF ~can_remove_member(current_user, membership.userId,
                                                      membership.role)
                                THEN answered(call, 403)
                           ELSE [call EXCEPT !.membership = membership, !.pc = "delete"]]
    /\ UNCHANGED <<users, memberships, removed, family_requests>>
    /\ UNCHANGED <<fetchVars, now, cacheVars, limiterVars, backstopVars, confidenceVars,
                   pipelineVars, contentVars>>

\* remove_member: prisma.familymembership.delete(where id); the delete of a row
\* that is gone raises a PrismaError
RemoveDelete(h) ==
    /\ handlers[h].op = "remove_member" /\ handlers[h].pc = "delete"
    /\ LET call == handlers[h]
       IN  IF call.membership \in memberships
           THEN /\ memberships' = memberships \ {call.membership}
                /\ removed' = removed \cup {call.membership}
                /\ handlers' = [handlers EXCEPT ![h] = answered(@, 200)]
           ELSE /\ handlers' = [handlers EXCEPT ![h] = answered(@, 500)]
                /\ UNCHANGED <<memberships, removed>>
    /\ UNCHANGED <<users, family_requests>>
    /\ UNCHANGED <<fetchVars, now, cacheVars, limiterVars, backstopVars, confidenceVars,
                   pipelineVars, contentVars>>

InitFetch ==
    /\ pc = "idle"
    /\ block_internal_suffixes \in BOOLEAN
    /\ current_url = NoUrl
    /\ redirect_count = 0
    /\ lastVal = NoVal
    /\ lastGetUrl = NoUrl
    /\ lastConnect = NoAddr
    /\ received = 0
    /\ get_count = 0
    /\ dns_count = 0
    /\ lastResponse = NoResponse
    /\ result = NoResult

InitOther == InitContent /\ InitFamily

InitIdleService == InitBackstop /\ InitConfidence /\ InitPipeline /\ InitOther

Init == InitFetch /\ InitClock /\ InitCache /\ InitLimiter /\ InitIdleService

Next ==
    \/ pc = "idle" /\ \E url \in Urls, ans \in DnsAnswers : FetchStart(url, ans)
    \/ pc = "get" /\ \E ip \in TransportAddrs(lastVal.dns) : SendGet(ip)
    \/ pc = "await" /\ \E exc \in HTTPErrors : GetRaises(exc)
    \/ pc = "await" /\ \E status_code \in StatusCodes \cap RedirectCodes,
                          content_length \in ContentLengths, chunks \in RedirectBodies,
                          target \in RedirectTargets, ans \in DnsAnswers :
            GetRedirect(status_code, content_length, chunks, target, ans)
    \/ pc = "await" /\ \E status_code \in StatusCodes, location \in LocationKinds,
                          content_length \in ContentLengths, chunks \in Bodies :
            GetFinal(status_code, location, content_length, chunks)

Spec == Init /\ [][Next]_vars

\* the cache under set and get calls and an advancing clock
InitIdle == Init /\ block_internal_suffixes = FALSE

NextCache ==
    \/ Tick
    \/ \E key \in CacheKeys, value \in CacheValues : CacheSet(key, value)
    \/ \E key \in CacheKeys : CacheGet(key)

SpecCache == InitIdle /\ [][NextCache]_vars

\* the limiter under allow calls of concurrent requests and an advancing clock
NextLimiter ==
    \/ Tick
    \/ \E key \in LimiterKeys : Allow(key)

SpecLimiter == InitIdle /\ [][NextLimiter]_vars

\* the composite limiter under check calls of concurrent requests and an advancing clock
NextBackstop ==
    \/ Tick
    \/ \E ip \in ClientIps, domain \in LimiterDomains \ {unknown_host} : Check(ip, domain)

SpecBackstop == InitIdle /\ [][NextBackstop]_vars

\* compute_confidence applied to every recipe and strategy name of the input sets
InitScoring ==
    /\ InitFetch /\ block_internal_suffixes = FALSE
    /\ InitClock /\ InitCache /\ InitLimiter /\ InitBackstop /\ InitPipeline /\ InitOther
    /\ recipe_in \in ConfidenceRecipes
    /\ strategy_in \in ConfidenceStrategies
    /\ confidence_out = NoConfidence

NextConfidence == ComputeConfidence

SpecConfidence == InitScoring /\ [][NextConfidence]_vars

\* the service handling one request after another, under an advancing clock
PipelineSettings ==
    [order : StrategyOrders, headless : {FALSE}, allowlist : {{}}]
    \cup {[order |-> DefaultOrder, headless |-> FALSE, allowlist |-> {unknown_host}]}
    \cup [order : {<<"headless", "heuristic">>}, headless : {TRUE},
          allowlist : {{}, {unknown_host}, LimiterDomains}]

InitPipelineService ==
    /\ InitFetch /\ block_internal_suffixes = FALSE
    /\ InitClock /\ InitLimiter /\ InitBackstop /\ InitConfidence /\ InitOther
    /\ store = [k \in PipelineKeys |-> NoEntry]
    /\ lastSetAt = [k \in PipelineKeys |-> NeverSet]
    /\ lastCacheGet = NoCacheGet
    /\ \E cfg \in PipelineSettings :
          /\ importer_strategy_order = cfg.order
          /\ enable_headless = cfg.headless
          /\ headless_allowlist_domains = cfg.allowlist
    /\ ppc = "idle"
    /\ request = NoRequest
    /\ canonical_url = NoUrl
    /\ response = NoAnswer
    /\ completed = [k \in PipelineKeys |-> NotCompleted]
    /\ requests = 0

\* duration_to_minutes applied to every duration text of the model
InitDuration ==
    /\ InitFetch /\ block_internal_suffixes = FALSE
    /\ InitClock /\ InitCache /\ InitLimiter /\ InitBackstop /\ InitConfidence /\ InitPipeline
    /\ duration_in \in Durations
    /\ minutes_out = NotCalled(NoMinutes)
    /\ data_in = RawData(NoValue, <<>>, <<>>, NoValue, NoTime, NoValue)
    /\ draft_out = NotCalled(NoDraft)
    /\ InitFamily

NextDuration == DurationToMinutes

\* normalize_recipe applied to every raw field map of the model
InitNormalize ==
    /\ InitFetch /\ block_internal_suffixes = FALSE
    /\ InitClock /\ InitCache /\ InitLimiter /\ InitBackstop /\ InitConfidence /\ InitPipeline
    /\ duration_in = ""
    /\ minutes_out = NotCalled(NoMinutes)
    /\ data_in \in NormalizeInputs
    /\ draft_out = NotCalled(NoDraft)
    /\ InitFamily

NextNormalize == NormalizeRecipe

SpecNormalize == InitNormalize /\ [][NextNormalize]_vars

SpecDuration == InitDuration /\ [][NextDuration]_vars

\* signup and remove_member requests handled concurrently
NextFamily ==
    \/ \E h \in Handlers, emailOrUsername \in People, key_ok \in BOOLEAN :
          SignupFindUser(h, emailOrUsername, key_ok)
    \/ \E h \in Handlers : SignupFindSpace(h)
    \/ \E h \in Handlers : SignupCount(h)
    \/ \E h \in Handlers : SignupCreate(h)
    \/ \E h \in Handlers, caller \in People, user_id \in People \cup {NotACuid} :
          RemoveCurrentUser(h, caller, user_id)
    \/ \E h \in Handlers : RemoveFind(h)
    \/ \E h \in Handlers : RemoveDelete(h)

InitFamilySpace ==
    /\ InitFetch /\ block_internal_suffixes = FALSE
    /\ InitClock /\ InitCache /\ InitLimiter /\ InitBackstop /\ InitConfidence /\ InitPipeline
    /\ InitContent
    /\ \E rows \in InitMemberships : InitFamilyWith(rows)

SpecFamily == InitFamilySpace /\ [][NextFamily]_vars

\* one request taken through run_pipeline, for every setting and page
NextPipeline ==
    \/ (ppc = "idle" \/ pc = "await") /\ Tick
    \/ ppc = "idle" /\ requests = 0
         /\ \E ip \in ClientIps, url \in PipelineUrls : ParseRequest(ip, url)
    \/ ppc = "fetch" /\ pc = "idle" /\ \E ans \in PipelineDns : FetchStart(canonical_url, ans)
    \/ ppc = "fetch" /\ pc = "get"
         /\ \E ip \in TransportAddrs(lastVal.dns) \ ReboundAddrs : SendGet(ip)
    \/ ppc = "fetch" /\ pc = "await" /\ \E exc \in PipelineErrors : GetRaises(exc)
    \/ ppc = "fetch" /\ pc = "await" /\ \E target \in PipelineTargets, ans \in PipelineDns :
            GetRedirect(301, -1, <<>>, target, ans)
    \/ ppc = "fetch" /\ pc = "await" /\ \E status_code \in PipelineStatusCodes,
                                            chunks \in PipelineBodies :
            GetFinal(status_code, "absent", -1, chunks)
    \/ ppc = "fetch" /\ pc = "done" /\ \E html \in Pages : PipelineFetched(html)
    \/ ppc = "fetch" /\ pc = "done"
         /\ \E html \in {Html(FullNode, NoNode, "Tomato soup", <<>>, <<>>)},
                  exc \in UnexpectedErrors,
                  where \in {"run_pipeline", "response"} :
               PipelineRaises(html, exc, where)

SpecPipeline == InitPipelineService /\ [][NextPipeline]_vars

\* the service handling one request after another under the default settings
InitService1 ==
    /\ InitPipelineService
    /\ importer_strategy_order = DefaultOrder
    /\ enable_headless = FALSE
    /\ headless_allowlist_domains = {}

ServiceUrls ==
    { Url("http", <<"example", "com">>, FALSE, NoPort, "frag"),
      Url("http", <<"example", "com">>, FALSE, 80, "none") }
ServiceDns == [gaierror |-> FALSE, infos |-> {"8.8.8.8"}]
ServicePage == Html(FullNode, NoNode, "Tomato soup", <<>>, <<>>)

NextService ==
    \/ ppc = "idle" /\ Tick
    \/ ppc = "idle" /\ \E ip \in ClientIps, url \in ServiceUrls : ParseRequest(ip, url)
    \/ ppc = "fetch" /\ pc = "idle" /\ FetchStart(canonical_url, ServiceDns)
    \/ ppc = "fetch" /\ pc = "get"
         /\ \E ip \in TransportAddrs(lastVal.dns) \ ReboundAddrs : SendGet(ip)
    \/ ppc = "fetch" /\ pc = "await" /\ \E target \in PipelineTargets \ {current_url} :
            GetRedirect(301, -1, <<>>, target, ServiceDns)
    \/ ppc = "fetch" /\ pc = "await" /\ GetFinal(200, "absent", -1, <<1>>)
    \/ ppc = "fetch" /\ pc = "done" /\ PipelineFetched(ServicePage)

SpecService == InitService1 /\ [][NextService]_vars

(***************************************************************************)
(* Properties of the validator and the fetcher                             *)
(***************************************************************************)
\* the address categories the validator must refuse
RefusedAddress(ip) ==
    is_private(ip) \/ is_loopback(ip) \/ is_link_local(ip) \/ is_reserved(ip) \/ is_multicast(ip)

ParsedAddrs(dns) == {ip \in dns.infos : ip_address_parses(ip)}

\* the resolver fails, gives no address, or gives at least one refused address
DnsRefused(dns) ==
    dns.gaierror \/ ParsedAddrs(dns) = {} \/ \E ip \in ParsedAddrs(dns) : RefusedAddress(ip)

\* the resolver was asked about the host of the last validated URL
LookedUp == lastVal.resolved /\ ~idna_fails(lastVal.target.host)

HostBlocked(host, suffixes_on) ==
    \/ host.labels \in { <<"localhost">>, <<"metadata", "google", "internal">>,
                         <<"169", "254", "169", "254">> }
    \/ suffixes_on /\ Len(host.labels) >= 2
                   /\ host.labels[Len(host.labels)] \in {"local", "internal", "corp"}

SchemeAllowed(url) == url.scheme \in {"http", "HTTP", "https"}
PortAllowed(url) == url.port \in {NoPort, 80, 443}

TargetPasses(url, dns, suffixes_on) ==
    /\ SchemeAllowed(url)
    /\ PortAllowed(url)
    /\ ~HostBlocked(url.host, suffixes_on)
    /\ ~DnsRefused(dns)

\* C2: every URL sent a GET is the URL the validator returned for that hop,
\* after the scheme, port, hostname and resolved-address checks passed; when
\* the validation of a redirect target fails the fetch ends with that error
\* and the number of requests sent stays the number of URLs validated.
C2_GetOnlyValidated ==
    /\ pc = "await" =>
          /\ lastGetUrl = current_url
          /\ lastVal.outcome = "ok" /\ lastVal.checked
          /\ lastGetUrl = lastVal.url
          /\ TargetPasses(lastVal.target, lastVal.dns, block_internal_suffixes)
    /\ lastVal.outcome \notin {"none", "ok"} =>
          /\ pc = "done"
          /\ result.kind = lastVal.outcome
          /\ get_count = (IF lastResponse = NoResponse THEN 0 ELSE redirect_count + 1)

\* a GET was sent to a validated redirect target
C2_Witness == pc = "await" /\ redirect_count = 1 /\ lastGetUrl = lastVal.url

\* the fetch ended on a response that asked for one more redirect than allowed
RedirectOverLimit ==
    /\ pc = "done"
    /\ lastResponse.exc = "none"
    /\ lastResponse.status_code \in RedirectCodes /\ lastResponse.location = "url"
    /\ redirect_count = redirect_limit

\* C3: one fetch follows at most redirect_limit redirects and sends at most
\* redirect_limit + 1 GETs; a further redirect response fails with InvalidUrl
\* without a DNS lookup or a GET for its target.
C3_RedirectBound ==
    /\ redirect_count <= redirect_limit
    /\ get_count <= redirect_limit + 1
    /\ dns_count <= redirect_limit + 1
    /\ RedirectOverLimit =>
          /\ result.kind = "InvalidUrl"
          /\ ~lastVal.resolved /\ ~lastVal.checked
          /\ get_count = redirect_limit + 1
          /\ dns_count = redirect_limit + 1

\* the redirect limit was hit
C3_Witness == RedirectOverLimit /\ get_count = redirect_limit + 1 /\ result.kind = "InvalidUrl"

\* the URL with its fragment removed and nothing else changed
WithoutFragment(url) == [url EXCEPT !.fragment = "none"]

ResolvesPublic(url, dns) ==
    /\ ~idna_fails(url.host) /\ url.host.labels # <<>>
    /\ ~DnsRefused(dns)

\* C4 as stated: for every URL with an allowed scheme and port whose host
\* resolves only to public addresses, validate_url_target succeeds and returns
\* the input unchanged except for fragment removal.
C4_Original ==
    lastVal.checked /\ SchemeAllowed(lastVal.target) /\ PortAllowed(lastVal.target)
                    /\ ResolvesPublic(lastVal.target, lastVal.dns) =>
        /\ lastVal.outcome = "ok"
        /\ lastVal.url = WithoutFragment(lastVal.target)

\* C4 amended: for every URL with an allowed scheme and port, a host that is
\* not refused by the hostname policy and resolves only to public addresses,
\* validate_url_target succeeds and returns the input with the fragment
\* removed, the scheme in lower case and an empty query ("?") dropped; host,
\* port and a non-empty query are as in the input.
C4_Amended ==
    lastVal.checked /\ SchemeAllowed(lastVal.target) /\ PortAllowed(lastVal.target)
                    /\ ~HostBlocked([lastVal.target.host EXCEPT !.upper = FALSE],
                                    block_internal_suffixes)
                    /\ ResolvesPublic(lastVal.target, lastVal.dns) =>
        /\ lastVal.outcome = "ok"
        /\ lastVal.url.fragment = "none"
        /\ lastVal.url.scheme = (IF lastVal.target.scheme = "HTTP" THEN "http"
                                 ELSE lastVal.target.scheme)
        /\ lastVal.url.query = (IF lastVal.target.query = "empty" THEN "none"
                                ELSE lastVal.target.query)
        /\ lastVal.url.host = lastVal.target.host
        /\ lastVal.url.port = lastVal.target.port

\* a URL with upper-case scheme, query and fragment was accepted
C4_Witness ==
    /\ lastVal.checked /\ lastVal.outcome = "ok"
    /\ lastVal.target.scheme = "HTTP" /\ lastVal.target.fragment = "frag"
    /\ lastVal.target.query = "q=1"

\* C5: validate_url_target fails with InvalidUrl whenever the scheme is not
\* allowed or an explicit port is not in the allowed set, whatever the host;
\* otherwise with BlockedHost when the lower-cased hostname is blocked; a bad
\* scheme, port or hostname gives no other error kind.
C5_SchemePortHostErrors ==
    lastVal.checked =>
        LET url == lastVal.target
            badSchemeOrPort == ~SchemeAllowed(url) \/ ~PortAllowed(url)
        IN  /\ badSchemeOrPort => lastVal.outcome = "InvalidUrl"
            /\ ~badSchemeOrPort /\ HostBlocked([url.host EXCEPT !.upper = FALSE],
                                               block_internal_suffixes)
                 => lastVal.outcome = "BlockedHost"
            /\ lastVal.outcome \in {"ok", "InvalidUrl", "BlockedHost"}

RECURSIVE SumBytes(_)
SumBytes(chunks) == IF chunks = <<>> THEN 0 ELSE Head(chunks) + SumBytes(Tail(chunks))

GotResponse == pc = "done" /\ lastResponse # NoResponse /\ lastResponse.exc = "none"

\* the response whose body fetch_html reads: not a followed redirect, status below 400
BodyIsRead ==
    /\ GotResponse
    /\ ~(lastResponse.status_code \in RedirectCodes /\ lastResponse.location = "url")
    /\ lastResponse.status_code < 400

\* C6 as stated: fetch_html fails with ContentTooLarge exactly when the body
\* bytes received exceed max_html_bytes.
C6_Original ==
    GotResponse =>
        (result.kind = "ContentTooLarge" <=> SumBytes(lastResponse.chunks) > max_html_bytes)

\* C6 amended: for the response whose body is read (not a followed redirect,
\* status below 400) fetch_html fails with ContentTooLarge exactly when the
\* body bytes exceed max_html_bytes, whatever Content-Length says; a body of
\* at most max_html_bytes is returned whole; no other response gives
\* ContentTooLarge.
C6_Amended ==
    /\ BodyIsRead =>
          /\ result.kind = "ContentTooLarge"
                <=> SumBytes(lastResponse.chunks) > max_html_bytes
          /\ SumBytes(lastResponse.chunks) <= max_html_bytes =>
                /\ result.kind = "ok"
                /\ result.total_read = SumBytes(lastResponse.chunks)
    /\ result.kind = "ContentTooLarge" => BodyIsRead /\ result.final_url = NoUrl

\* a body larger than the cap was refused although Content-Length said 1
C6_Witness ==
    /\ BodyIsRead /\ result.kind = "ContentTooLarge"
    /\ lastResponse.content_length = 1
    /\ SumBytes(lastResponse.chunks) > max_html_bytes

\* C7: a timeout at any stage of a hop (connect, pool, write, read) makes
\* fetch_html fail with FetchTimeout.
C7_TimeoutIsFetchTimeout ==
    pc = "done" /\ lastResponse.exc \in TimeoutExceptions => result.kind = "FetchTimeout"

(***************************************************************************)
(* Properties of the cache and the rate limiter                            *)
(***************************************************************************)
\* C8: get(k) returns the value of the latest set(k) while less than the TTL
\* has passed since that set, returns none once more than the TTL has passed
\* (the entry is gone after that read), never returns a value for a key that
\* was never set, and reads in between do not extend the expiry.
C8_CacheTtl ==
    lastCacheGet.called =>
        LET g == lastCacheGet
        IN  /\ ~g.since.is_set => g.value = NoValue
            /\ g.since.is_set /\ g.time - g.since.time < cache_ttl_seconds
                  => g.value = g.since.value /\ g.present_after
            /\ g.since.is_set /\ g.time - g.since.time > cache_ttl_seconds
                  => g.value = NoValue /\ ~g.present_after

\* an entry that was read within its TTL is read again after the TTL and is gone
C8_Witness ==
    /\ lastCacheGet.called /\ lastCacheGet.since.is_set
    /\ lastCacheGet.reads_between >= 1
    /\ lastCacheGet.time - lastCacheGet.since.time > cache_ttl_seconds
    /\ lastCacheGet.value = NoValue

\* C9: for every key and instant the admitted calls of the trailing window
\* never exceed the limit; a call is admitted exactly when fewer than limit
\* calls of its key were admitted in the window before it; a call changes the
\* bucket of its own key only.
C9_WindowBound ==
    /\ \A key \in LimiterKeys : \A t \in 0..MaxTime :
          Cardinality(InWindow(admitted[key], t)) <= limit
    /\ lastAllow.called =>
          /\ lastAllow.ok <=> lastAllow.recent_before < limit
          /\ \A key \in LimiterKeys \ {lastAllow.key} :
                events[key] = lastAllow.others_before[key]

\* the call after limit admitted calls in one window was rejected
C9_Witness ==
    /\ lastAllow.called /\ ~lastAllow.ok
    /\ lastAllow.recent_before = limit
    /\ \E key \in LimiterKeys : key # lastAllow.key /\ admitted[key] # <<>>

IsSuffix(s, t) == \E n \in 0..Len(t) : s = SubSeq(t, n + 1, Len(t))

Oldest(bucket) == CHOOSE x \in {bucket[i] : i \in DOMAIN bucket} :
                      \A i \in DOMAIN bucket : x <= bucket[i]

\* C10: a rejected allow call records nothing, and once more than
\* window_seconds have passed since the oldest recorded admission of the key
\* the next call is admitted, however many calls were rejected in between.
C10_RejectedNotRecorded ==
    lastAllow.called =>
        /\ ~lastAllow.ok => IsSuffix(lastAllow.after, lastAllow.before)
        /\ lastAllow.before # <<>>
              /\ lastAllow.time - Oldest(lastAllow.before) > window_seconds
              => lastAllow.ok

\* a call was admitted after rejected calls once the oldest admission left the window
C10_Witness ==
    /\ lastAllow.called /\ lastAllow.ok
    /\ lastAllow.rejected_before >= 2
    /\ lastAllow.before # <<>>
    /\ lastAllow.time - Oldest(lastAllow.before) > window_seconds

(***************************************************************************)
(* Properties of the composite rate limiter                                *)
(***************************************************************************)
\* the timestamps of a bucket that lie inside the window ending at t
Recent(bucket, t) == SelectSeq(bucket, LAMBDA x : x >= t - window_seconds)

\* what one axis must have done: admitted iff fewer than its limit recent
\* timestamps, and then the call time is appended
AxisAdmits(before, t, axis_limit) == Len(Recent(before, t)) < axis_limit
AxisDone(before, after, t, axis_limit) ==
    after = IF AxisAdmits(before, t, axis_limit) THEN Append(Recent(before, t), t)
            ELSE Recent(before, t)

\* C11: check(ip, domain) evaluates both the per-IP and the per-domain
\* limiter and returns true only if both admit; when one axis rejects, the
\* other axis is still evaluated and, if it admits, records the timestamp of
\* the call, so a request rejected on one axis takes a slot on the other.
C11_BothAxesEvaluated ==
    lastCheck.called =>
        /\ lastCheck.ok =
              (AxisAdmits(lastCheck.ip_before, lastCheck.time, rate_limit_ip_per_min)
               /\ AxisAdmits(lastCheck.domain_before, lastCheck.time,
                             rate_limit_domain_per_min))
        /\ AxisDone(lastCheck.ip_before, lastCheck.ip_after, lastCheck.time,
                    rate_limit_ip_per_min)
        /\ AxisDone(lastCheck.domain_before, lastCheck.domain_after, lastCheck.time,
                    rate_limit_domain_per_min)
        /\ per_ip[lastCheck.ip] = lastCheck.ip_after
        /\ per_domain[lastCheck.domain] = lastCheck.domain_after

\* a call rejected by the per-IP limiter took a slot of the per-domain limiter
C11_Witness ==
    /\ lastCheck.called /\ ~lastCheck.ok
    /\ ~AxisAdmits(lastCheck.ip_before, lastCheck.time, rate_limit_ip_per_min)
    /\ Len(lastCheck.domain_after) = Len(Recent(lastCheck.domain_before, lastCheck.time)) + 1
    /\ lastCheck.domain_after[Len(lastCheck.domain_after)] = lastCheck.time

(***************************************************************************)
(* Properties of the confidence score                                      *)
(***************************************************************************)
\* C20: compute_confidence returns a score in [0, 1] for every recipe and
\* every strategy name, known or unknown, for all ingredient and step counts
\* and whether or not a paywall or JS-wall phrase is present.
C20_ScoreInUnitInterval ==
    confidence_out # NoConfidence => 0 <= confidence_out.score /\ confidence_out.score <= 100

\* an over-long recipe with a paywall phrase under an unknown strategy name:
\* the sum of the terms is negative and the score returned is 0
C20_Witness ==
    /\ confidence_out # NoConfidence
    /\ strategy_in = "unknown"
    /\ Len(recipe_in.ingredients) > 60 /\ Len(recipe_in.steps) > 50
    /\ mentions_wall(recipe_in.ingredients)
    /\ confidence_out.score = 0

(***************************************************************************)
(* Properties of the request handler and of run_pipeline                   *)
(***************************************************************************)
\* the latest check call is the one made for the request being handled
CheckedThisRequest ==
    /\ lastCheck.called
    /\ lastCheck.ip = request.ip /\ lastCheck.time = request.time
    /\ lastCheck.domain = [request.url.host EXCEPT !.upper = FALSE]

NoNetwork == get_count = 0 /\ dns_count = 0 /\ lastVal = NoVal /\ lastResponse = NoResponse

\* C12: for every /v1/parse request the rate-limit check comes before the
\* pipeline: a request the limiter rejects is answered RATE_LIMITED with no
\* cache lookup, cache write, DNS resolution or outbound fetch, and a request
\* answered from the cache has passed the limiter and taken a slot on both axes.
C12_LimiterBeforePipeline ==
    requests > 0 =>
        /\ CheckedThisRequest
        /\ ~lastCheck.ok =>
              /\ response.code = "RATE_LIMITED" /\ ppc = "idle"
              /\ response.cache_gets = 0 /\ response.cache_sets = 0
              /\ StoreShape(store) = request.shape
              /\ NoNetwork
        /\ response.code = "RATE_LIMITED" => ~lastCheck.ok
        /\ (ppc = "fetch" \/ response.from \in {"cache", "final_cache", "computed", "error"}) =>
              /\ lastCheck.ok
              /\ lastCheck.ip_after = Append(Recent(lastCheck.ip_before, request.time),
                                             request.time)
              /\ lastCheck.domain_after = Append(Recent(lastCheck.domain_before, request.time),
                                                 request.time)

\* a request was refused by the limiter while the cache held its answer
C12_Witness ==
    /\ requests > 0 /\ response.code = "RATE_LIMITED"
    /\ store[normalize_url(request.url)].present
    /\ store[normalize_url(request.url)].expires_at >= request.time

\* C13: the first cache lookup of run_pipeline is keyed by the input URL with
\* the fragment stripped, so URLs that differ only in the fragment share one
\* entry; on a hit the stored payload is returned unchanged with fetch time 0,
\* without validation, DNS resolution or fetch, and strategy and domain are
\* those of the cached recipe's source.
C13_CanonicalKeyHit ==
    /\ \A url \in PipelineUrls : normalize_url(url) = normalize_url(WithoutFragment(url))
    /\ response.from = "cache" =>
          /\ response.key = WithoutFragment(request.url)
          /\ store[response.key].present
          /\ response.payload = store[response.key].value
          /\ response.payload = lastSetAt[response.key].value
          /\ response.fetch_timing_ms = "0.0"
          /\ NoNetwork /\ pc = "idle"
          /\ response.cache_sets = 0 /\ response.attempted = <<>>
          /\ response.strategy = response.payload.recipe.source.strategy
          /\ response.domain = response.payload.recipe.source.domain

\* a URL with a fragment was answered from the entry of the URL without it
C13_Witness ==
    /\ response.from = "cache"
    /\ request.url.fragment = "frag" /\ response.key.fragment = "none"
    /\ response.strategy = "jsonld"

\* the request passed the limiter and was answered from the cache, with no
\* fetch time and no network access
ServedFromCache ==
    /\ ppc = "idle" /\ response.from = "cache"
    /\ response.fetch_timing_ms = "0.0" /\ NoNetwork

\* C14 as stated: once a request for a URL A redirecting to B has completed
\* successfully, whether its result was computed or served from the final-URL
\* cache entry, every later request within the cache TTL for A's canonical URL
\* or for B is served from the cache with zero fetch time and no network access.
C14_Original ==
    (request.ok /\ request.prior.done
       /\ request.time <= request.prior.time + cache_ttl_seconds) => ServedFromCache

\* C14 amended: once a request whose result was computed (both cache lookups
\* missed) has completed, every later request admitted by the limiter within
\* the cache TTL of that completion, for its canonical URL or its final URL,
\* is served from the cache with zero fetch time and no network access.
C14_Amended ==
    (request.ok /\ request.prior.computed
       /\ request.time <= request.prior.computed_time + cache_ttl_seconds) => ServedFromCache

\* a later request for A was served from the entry a redirected run left
C14_Witness ==
    /\ ServedFromCache /\ request.ok /\ request.prior.computed
    /\ request.time > request.prior.computed_time
    /\ response.payload.recipe.source.url # response.key

\* the entry the cache holds for a payload stored at time t
Held(key, payload, t) ==
    /\ store[key].present
    /\ store[key].expires_at = t + cache_ttl_seconds
    /\ store[key].value = payload

\* C15: every run_pipeline call that fetches successfully, misses both
\* cache lookups and returns ends with the cache holding the returned payload under the
\* canonical key and under the final-URL key, also when no strategy produced
\* data and the payload is an empty draft.
C15_StoredUnderBothKeys ==
    /\ (ppc = "idle" /\ result.kind = "ok" /\ response.from # "final_cache"
          /\ response.raised = "") =>
          response.from = "computed"
    /\ response.from = "computed" =>
          /\ response.key = WithoutFragment(request.url)
          /\ response.final_key = result.final_url
          /\ Held(response.key, response.payload, response.time)
          /\ Held(response.final_key, response.payload, response.time)

\* an empty draft was stored under two different keys
C15_Witness ==
    /\ response.from = "computed" /\ response.key # response.final_key
    /\ Len(response.payload.missing_fields) = 3
    /\ Held(response.key, response.payload, response.time)
    /\ Held(response.final_key, response.payload, response.time)

\* what a page offers each extractor; the headless renderer yields nothing
NonBlank(value) == value \notin {NoValue, "", "  "}
HasData(name, page) ==
    CASE name = "jsonld" -> page.jsonld.present
      [] name = "microdata" -> page.microdata.present
      [] name = "heuristic" ->
            \/ NonBlank(page.title)
            \/ \E i \in DOMAIN page.ingredients : NonBlank(page.ingredients[i])
            \/ \E i \in DOMAIN page.instructions : NonBlank(page.instructions[i])
      [] OTHER -> FALSE

\* the configured names that denote a strategy which runs, in configured order
Trimmed(item) == IF item = " jsonld" THEN "jsonld" ELSE item
ConfiguredStrategies ==
    SelectSeq([i \in DOMAIN importer_strategy_order |-> Trimmed(importer_strategy_order[i])],
              LAMBDA name : \/ name \in {"jsonld", "microdata", "heuristic"}
                            \/ /\ name = "headless" /\ enable_headless
                               /\ \/ headless_allowlist_domains = {}
                                  \/ response.domain \in headless_allowlist_domains)

Elements(items) == {items[i] : i \in DOMAIN items}

\* C16: run_pipeline attempts the strategies strictly in the order of the
\* configured list, runs no strategy after the first one that returns data,
\* and reports that strategy as the one used; names that are not known
\* strategies are skipped without effect.
C16_FirstSuccessInOrder ==
    response.from = "computed" =>
        LET a == response.attempted
            succeeded == a # <<>> /\ HasData(a[Len(a)], response.page)
        IN  /\ Len(a) <= Len(ConfiguredStrategies)
            /\ a = SubSeq(ConfiguredStrategies, 1, Len(a))
            /\ \A i \in 1..(Len(a) - 1) : ~HasData(a[i], response.page)
            /\ succeeded =>
                  /\ response.strategy = a[Len(a)]
                  /\ response.payload.recipe.source.strategy = a[Len(a)]
            /\ ~succeeded => a = ConfiguredStrategies

\* microdata is configured before jsonld, both find data, and only microdata ran
C16_Witness ==
    /\ response.from = "computed"
    /\ importer_strategy_order = <<"bogus", " ", "microdata", " jsonld">>
    /\ HasData("jsonld", response.page) /\ HasData("microdata", response.page)
    /\ response.attempted = <<"microdata">> /\ response.strategy = "microdata"

NoStrategySucceeded ==
    /\ response.from = "computed"
    /\ \A i \in DOMAIN response.attempted : ~HasData(response.attempted[i], response.page)

\* C17: when no strategy produced data, run_pipeline builds an empty draft,
\* adds the NO_RECIPE_SCHEMA_FOUND warning, and labels the result with the
\* last strategy attempted in the configured order, using the fixed fallback
\* label only when no strategy was attempted.
C17_LastAttemptedLabel ==
    NoStrategySucceeded =>
        /\ response.payload.recipe.title = NoValue
        /\ response.payload.recipe.ingredients = <<>>
        /\ response.payload.recipe.steps = <<>>
        /\ "NO_RECIPE_SCHEMA_FOUND" \in Elements(response.payload.warnings)
        /\ response.strategy =
              IF response.attempted = <<>> THEN "heuristic"
              ELSE response.attempted[Len(response.attempted)]

\* C18: once the fetch has succeeded run_pipeline returns a successful result
\* whatever the strategies found: a page without recipe data, missing fields
\* and a low score are reported in warnings and missing_fields, not as an error.
C18_AlwaysSuccessAfterFetch ==
    (ppc = "idle" /\ result.kind = "ok" /\ response.raised = "") =>
        LET payload == response.payload
            warned == Elements(payload.warnings)
            missing == Elements(payload.missing_fields)
        IN  /\ response.code = "OK"
            /\ response.from = "computed" =>
                  /\ NoStrategySucceeded <=> "NO_RECIPE_SCHEMA_FOUND" \in warned
                  /\ "title" \in missing <=> payload.recipe.title = NoValue
                  /\ "ingredients" \in missing <=> payload.recipe.ingredients = <<>>
                  /\ "steps" \in missing <=> payload.recipe.steps = <<>>
                  /\ "MISSING_INGREDIENTS" \in warned <=> payload.recipe.ingredients = <<>>
                  /\ "MISSING_STEPS" \in warned <=> payload.recipe.steps = <<>>
                  /\ "LOW_CONFIDENCE" \in warned <=> payload.confidence < 65

\* a page without any recipe data was answered with an empty draft and warnings
C18_Witness ==
    /\ ppc = "idle" /\ result.kind = "ok" /\ response.code = "OK"
    /\ NoStrategySucceeded
    /\ Len(response.payload.missing_fields) = 3
    /\ {"NO_RECIPE_SCHEMA_FOUND", "LOW_CONFIDENCE"}
          \subseteq Elements(response.payload.warnings)

FetchFailed == result.kind \notin {"ok", "none"}

\* C19: when validation or a fetch hop fails, run_pipeline raises that same
\* error kind, no further request is sent (each hop is requested once, without
\* retry), no strategy runs and nothing is written to the cache.
C19_FailurePropagates ==
    FetchFailed =>
        /\ pc = "done"
        /\ get_count <= redirect_count + 1
        /\ ppc = "idle" =>
              /\ response.from = "error" /\ response.code = result.kind
              /\ response.attempted = <<>>
              /\ response.cache_sets = 0
              /\ StoreShape(store) = request.shape

\* the body of the redirect target was too large: two requests, nothing cached
C19_Witness ==
    /\ FetchFailed /\ ppc = "idle"
    /\ response.code = "ContentTooLarge"
    /\ redirect_count = 1 /\ get_count = 2
    /\ \A k \in PipelineKeys : ~store[k].present

\* the ways to read a text as P[nD][T[nH][nM][nS]], letters in either case:
\* the digits of each part (none when the part is absent) and whether T is there
DigitRuns(chars) ==
    {run \in {SubSeq(chars, i, j) : i, j \in 1..Len(chars)} :
        run # <<>> /\ \A k \in DOMAIN run : IsDigit(run[k])}
Capital(c) ==
    CASE c = "p" -> "P" [] c = "d" -> "D" [] c = "t" -> "T" [] c = "h" -> "H"
      [] c = "m" -> "M" [] c = "s" -> "S" [] OTHER -> c
FormReadings(chars) ==
    LET runs == DigitRuns(chars) \cup {<<>>}
        unit(digits, letter) == IF digits = <<>> THEN <<>> ELSE digits \o <<letter>>
        text(r) == <<"P">> \o unit(r.days, "D")
                   \o (IF r.t THEN <<"T">> \o unit(r.hours, "H") \o unit(r.minutes, "M")
                                   \o unit(r.seconds, "S")
                       ELSE <<>>)
    IN  {r \in [days : runs, t : BOOLEAN, hours : runs, minutes : runs, seconds : runs] :
            /\ r.t \/ (r.hours = <<>> /\ r.minutes = <<>> /\ r.seconds = <<>>)
            /\ [i \in DOMAIN chars |-> Capital(chars[i])] = text(r)}
ExpectedMinutes(r) ==
    LET total == int(r.days) * 1440 + int(r.hours) * 60 + int(r.minutes)
                 + (int(r.seconds) \div 60)
    IN  IF total > 0 THEN Minutes(total) ELSE NoMinutes

\* a text without its leading and trailing whitespace
Core(chars) ==
    LET inked == {k \in DOMAIN chars : chars[k] \notin Whitespace}
    IN  IF inked = {} THEN <<>>
        ELSE SubSeq(chars, CHOOSE k \in inked : \A l \in inked : k <= l,
                           CHOOSE k \in inked : \A l \in inked : k >= l)

\* C21 as stated: a string of the form P[nD][T[nH][nM][nS]] gives
\* days*1440 + hours*60 + minutes + floor(seconds/60) when that is positive
\* and none when it is zero; every other string gives none.
C21_Original ==
    minutes_out.called =>
        LET readings == FormReadings(duration_chars(duration_in))
        IN  /\ \A r \in readings : minutes_out.value = ExpectedMinutes(r)
            /\ readings = {} => minutes_out.value = NoMinutes

\* C21 amended: the same, for the string with its leading and trailing
\* whitespace removed.
C21_Amended ==
    minutes_out.called =>
        LET readings == FormReadings(Core(duration_chars(duration_in)))
        IN  /\ \A r \in readings : minutes_out.value = ExpectedMinutes(r)
            /\ readings = {} => minutes_out.value = NoMinutes

\* PT1H30M written with surrounding whitespace gives 90
C21_Witness ==
    /\ minutes_out.called
    /\ duration_in = Str(<<" ", "P", "T", "1", "H", "3", "0", "M", "\n">>)
    /\ minutes_out.value = Minutes(90)

\* the words of a text: its maximal runs of characters that are not whitespace
RECURSIVE WordsOf(_, _)
WordsOf(chars, word) ==
    IF chars = <<>> THEN (IF word = <<>> THEN <<>> ELSE <<word>>)
    ELSE IF Head(chars) \in Whitespace
         THEN (IF word = <<>> THEN <<>> ELSE <<word>>) \o WordsOf(Tail(chars), <<>>)
         ELSE WordsOf(Tail(chars), Append(word, Head(chars)))

\* non-empty, no whitespace at either end, and every whitespace character is
\* a single space between two other characters
WellFormed(text) ==
    LET chars == chars_of(text)
    IN  /\ chars # <<>>
        /\ chars[1] \notin Whitespace /\ chars[Len(chars)] \notin Whitespace
        /\ \A i \in DOMAIN chars :
              chars[i] \in Whitespace => chars[i] = " " /\ chars[i + 1] \notin Whitespace

\* the raw entries that survive: not None, and with some character that is not whitespace
Survivors(raw) ==
    IF raw.is_list
    THEN SelectSeq(raw.items, LAMBDA item : /\ item.kind # "none"
                                            /\ WordsOf(chars_of(str(item)), <<>>) # <<>>)
    ELSE <<>>
CleanedFrom(lines, raw) ==
    /\ \A i \in DOMAIN lines : WellFormed(lines[i])
    /\ Len(lines) = Len(Survivors(raw))
    /\ \A i \in DOMAIN lines :
          WordsOf(chars_of(lines[i]), <<>>) = WordsOf(chars_of(str(Survivors(raw)[i])), <<>>)

\* C22: the ingredients and steps of the draft returned by normalize_recipe
\* are non-empty strings without leading or trailing whitespace and without a
\* whitespace run other than one space, one per surviving raw entry, in the
\* order of the raw entries.
C22_ListsAreClean ==
    draft_out.called =>
        /\ CleanedFrom(draft_out.value.ingredients, data_in.ingredients)
        /\ CleanedFrom(draft_out.value.steps, data_in.steps)

\* a None entry and a blank entry are dropped, a dict entry is kept as text,
\* and the steps "a \ta", None, 7 become "a a", "7"
C22_Witness ==
    /\ draft_out.called
    /\ data_in.ingredients = List(<<StrItem(Str(<<" ", " ">>)), DictItem(Str(<<"a", " ", " ", "a">>))>>)
    /\ Len(draft_out.value.ingredients) = 1
    /\ draft_out.value.steps = <<Str(<<"a", " ", "a">>), "7">>

\* C27: after normalize_recipe each of prep_time_minutes, cook_time_minutes
\* and total_time_minutes is absent or a non-zero number of minutes.
C27_TimesAbsentOrNonZero ==
    draft_out.called =>
        /\ draft_out.value.prep_time_minutes.present =>
              draft_out.value.prep_time_minutes.value # 0
        /\ draft_out.value.cook_time_minutes.present =>
              draft_out.value.cook_time_minutes.value # 0
        /\ draft_out.value.total_time_minutes.present =>
              draft_out.value.total_time_minutes.value # 0

\* the names of the configured order that select a branch of the loop
ConfiguredNames ==
    SelectSeq([i \in DOMAIN importer_strategy_order |-> Trimmed(importer_strategy_order[i])],
              LAMBDA name : name \in {"jsonld", "microdata", "heuristic", "headless"})
\* the loop reaches the headless branch: no strategy configured before it has data
HeadlessReached ==
    \E i \in DOMAIN ConfiguredNames :
        /\ ConfiguredNames[i] = "headless"
        /\ \A j \in 1..(i - 1) : ~HasData(ConfiguredNames[j], response.page)

\* C23: whatever the headless flag, the allowlist and the strategy order, each
\* time the loop reaches the headless strategy it yields no recipe data and
\* JS_RENDERING_REQUIRED_SUSPECTED is recorded; the strategy reported never
\* starts with "headless".
C23_HeadlessYieldsNothing ==
    /\ response.from \in {"computed", "cache", "final_cache"} =>
          /\ response.strategy \notin {"headless", "headless_jsonld", "headless_heuristic"}
          /\ response.payload.recipe.source.strategy
                \notin {"headless", "headless_jsonld", "headless_heuristic"}
    /\ (response.from = "computed" /\ HeadlessReached) =>
          /\ "JS_RENDERING_REQUIRED_SUSPECTED" \in Elements(response.payload.warnings)
          /\ (\A i \in DOMAIN ConfiguredNames : ~HasData(ConfiguredNames[i], response.page))
                => /\ "NO_RECIPE_SCHEMA_FOUND" \in Elements(response.payload.warnings)
                   /\ response.payload.recipe.ingredients = <<>>

\* headless is enabled and allowed for the domain, the renderer was called
\* and the heuristic strategy gave the result
C23_Witness ==
    /\ response.from = "computed"
    /\ enable_headless /\ response.domain \in headless_allowlist_domains
    /\ response.attempted = <<"headless", "heuristic">>
    /\ response.strategy = "heuristic"
    /\ "JS_RENDERING_REQUIRED_SUSPECTED" \in Elements(response.payload.warnings)

ParseFailedAnswer == [code |-> "PARSE_FAILED", status_code |-> 500, message |-> "Parsing failed"]

\* C24 as stated: an exception that is no ImporterError, raised after the
\* rate-limit check in extraction, normalization, scoring or while the
\* response is built, is answered with PARSE_FAILED, status 500 and the fixed
\* message.
C24_Original ==
    response.raised # "" => error_response(response.code) = ParseFailedAnswer

\* C24 amended: such an exception raised inside run_pipeline is answered with
\* PARSE_FAILED, status 500 and the fixed message; one raised while the
\* response is built is not caught by parse_recipe.  Neither answer carries
\* the text of the exception.
C24_Amended ==
    response.raised # "" =>
        /\ response.raised_in = "run_pipeline" =>
              /\ error_response(response.code) = ParseFailedAnswer
              /\ response.cache_sets = 0
        /\ response.raised_in = "response" => response.code \notin ImporterErrors
        /\ error_response(response.code).status_code = 500
        /\ error_response(response.code).message # response.raised

\* a RecursionError raised during extraction was answered with PARSE_FAILED
C24_Witness ==
    /\ ppc = "idle" /\ result.kind = "ok"
    /\ response.raised = "RecursionError: maximum recursion depth exceeded"
    /\ response.raised_in = "run_pipeline"
    /\ response.code = "ParseFailed"

\* a Recipe node from which no title, no ingredient and no step comes out
YieldsNothing(node) ==
    /\ ~NonBlank(node.name)
    /\ \A i \in DOMAIN node.recipeIngredient :
          LET item == node.recipeIngredient[i]
          IN  item.kind = "none" \/ (item.kind = "str" /\ ~NonBlank(item.text))
    /\ \A i \in DOMAIN node.recipeInstructions :
          LET item == node.recipeInstructions[i]
          IN  item.kind \in {"str", "dict"} => ~NonBlank(item.text)

\* C30: when the page holds a JSON-LD Recipe node and the jsonld strategy
\* runs, it counts as having returned data also when the node yields no
\* title, no ingredients and no steps: the result is labelled jsonld, carries
\* those three fields in missing_fields, has no NO_RECIPE_SCHEMA_FOUND warning,
\* and no strategy configured after jsonld is run.
C30_EmptyRecipeNodeIsData ==
    (/\ response.from = "computed"
     /\ response.page.jsonld.present
     /\ "jsonld" \in Elements(response.attempted)) =>
        LET a == response.attempted
        IN  /\ a[Len(a)] = "jsonld"
            /\ \A i \in DOMAIN a : a[i] = "jsonld" => i = Len(a)
            /\ response.strategy = "jsonld"
            /\ response.payload.recipe.source.strategy = "jsonld"
            /\ "NO_RECIPE_SCHEMA_FOUND" \notin Elements(response.payload.warnings)
            /\ YieldsNothing(response.page.jsonld) =>
                  /\ response.payload.missing_fields = <<"title", "ingredients", "steps">>
                  /\ response.payload.recipe.title = NoValue
                  /\ response.payload.recipe.ingredients = <<>>
                  /\ response.payload.recipe.steps = <<>>

\* a Recipe node holding only blank values ended the loop although the
\* heuristic strategy, configured later, would have found a title
C30_Witness ==
    /\ response.from = "computed"
    /\ response.page.jsonld = BlankNode
    /\ HasData("heuristic", response.page)
    /\ importer_strategy_order = <<"jsonld", "microdata", "heuristic", "headless">>
    /\ response.attempted = <<"jsonld">>
    /\ response.strategy = "jsonld"
    /\ Len(response.payload.missing_fields) = 3

\* what fetch_html does with the response of a hop.  A response with a
\* redirect status and a Location is followed (its target is validated, and
\* the loop goes on or the fetch ends with the validator's error); no other
\* response is followed; one with status >= 400 fails with UpstreamFetchFailed;
\* one with status < 400 ends the fetch as final(response, result).
Dispatch(final(_, _)) ==
    (pc = "await" /\ lastResponse'.exc = "none") =>
        LET r == lastResponse'
            redirect == r.status_code \in RedirectCodes /\ r.location = "url"
        IN  /\ redirect =>
                  \/ /\ pc' = "get" /\ lastVal'.outcome = "ok"
                     /\ current_url' = lastVal'.url
                     /\ redirect_count' = redirect_count + 1
                  \/ /\ pc' = "done" /\ lastVal'.outcome # "ok"
                     /\ result'.kind = lastVal'.outcome
            /\ ~redirect =>
                  /\ pc' = "done"
                  /\ UNCHANGED <<current_url, redirect_count, lastVal, dns_count, get_count>>
                  /\ r.status_code >= 400 => result'.kind = "UpstreamFetchFailed"
                  /\ r.status_code < 400 => final(r, result')

Returned(r, res) ==
    /\ res.kind = "ok"
    /\ res.status_code = r.status_code
    /\ res.total_read = SumBytes(r.chunks)
    /\ res.final_url = current_url

ReturnedWithinCap(r, res) ==
    IF SumBytes(r.chunks) <= max_html_bytes THEN Returned(r, res)
    ELSE res.kind = "ContentTooLarge"

LargestChunk(chunks) ==
    IF chunks = <<>> THEN 0
    ELSE CHOOSE n \in {chunks[i] : i \in DOMAIN chunks} : \A i \in DOMAIN chunks : chunks[i] <= n

\* C26: during a hop the body transfer is aborted as soon as the running
\* byte count exceeds max_html_bytes, so that at no point more than
\* max_html_bytes plus one chunk of the response body has been received or
\* buffered, however large the body is.
C26_ReceivedWithinCap ==
    lastResponse.exc = "none" =>
        received <= max_html_bytes + LargestChunk(lastResponse.chunks)

\* C28: every connection fetch_html opens goes to an address that passed the
\* validator's blocked-address check for that hop, also when the DNS answer
\* changes between the validator's lookup and the GET.
C28_ConnectsToValidatedAddress ==
    pc = "await" =>
        /\ lastVal.outcome = "ok"
        /\ lastConnect \in ParsedAddrs(lastVal.dns)
        /\ ~RefusedAddress(lastConnect)

Owners == {m \in memberships : m.role = "owner"}

\* C25: after any sequence of signup and remove-member requests, also with
\* signups interleaving at their database calls, the family space has at most
\* one membership with role owner, and no owner membership was ever deleted.
C25_OneOwnerNeverDeleted ==
    /\ Cardinality(Owners) <= 1
    /\ \A m \in removed : m.role # "owner"

====
